---------------------------- MODULE Spec2Model ----------------------------
(***************************************************************************)
(* Wisconsin excise-tax XML form generator: the CSV column mapper          *)
(* (csv_mapper.py), its date normaliser and field sanitisers, and the      *)
(* generation request of app.py that re-applies the defaults to the        *)
(* shipments before the document is assembled.                             *)
(*                                                                         *)
(* The Document Assembler and the Validation Translator of                 *)
(* xml_generator.py are modelled on element trees and on the lines of the  *)
(* XML text.                                                               *)
(*                                                                         *)
(* A Python str is a sequence of one-character strings; a dict is a        *)
(* function whose DOMAIN is the set of keys present.                       *)
(***************************************************************************)
EXTENDS Integers, Sequences, FiniteSets, TLC

VARIABLES
    pc,          \* "ready" before a call, "done" once a call has returned
    fn,          \* the function or endpoint that ran last
    arg,         \* the argument of the last call, or the body of the last request
    ret,         \* what that call returned
    origin,      \* how arg was built: the calendar fields and format rendered
    line,        \* the source line of the return statement the last call left by
    dateutil,    \* what the optional dateutil fallback comes to when it is tried
    shipments,   \* the shipment records the caller holds (a list of dicts)
    assembled,   \* what the last generation request handed to XMLGenerator
    response,    \* how the last request ended
    earlier,     \* the generate_xml call made before the last one, and its result
    lxml,        \* what the parser and the schema of lxml answer when they are asked
    filer_config_file,    \* config/filer_config.json as it is on disk
    defaults_config_file  \* config/defaults.json as it is on disk

vars == <<pc, fn, arg, ret, line, origin, dateutil, shipments, assembled, response,
          earlier, lxml, filer_config_file, defaults_config_file>>

-----------------------------------------------------------------------------
(* Python str primitives *)

Digits == <<"0", "1", "2", "3", "4", "5", "6", "7", "8", "9">>
UpperLetters == <<"A", "B", "C", "D", "E", "F", "G", "H", "I", "J", "K", "L", "M",
                  "N", "O", "P", "Q", "R", "S", "T", "U", "V", "W", "X", "Y", "Z">>
LowerLetters == <<"a", "b", "c", "d", "e", "f", "g", "h", "i", "j", "k", "l", "m",
                  "n", "o", "p", "q", "r", "s", "t", "u", "v", "w", "x", "y", "z">>

Range(s) == {s[i] : i \in DOMAIN s}

DigitChars == Range(Digits)
UpperChars == Range(UpperLetters)
LowerChars == Range(LowerLetters)

\* the characters str.isspace() accepts, as far as the inputs use them
Whitespace == {" ", "\t"}

IsDigit(c) == c \in DigitChars
IsSpace(c) == c \in Whitespace

DigitVal(c) == (CHOOSE i \in DOMAIN Digits : Digits[i] = c) - 1

\* str.upper() and str.lower() on one character
UpperChar(c) ==
    IF c \in LowerChars
    THEN UpperLetters[CHOOSE i \in DOMAIN LowerLetters : LowerLetters[i] = c]
    ELSE c

LowerChar(c) ==
    IF c \in UpperChars
    THEN LowerLetters[CHOOSE i \in DOMAIN UpperLetters : UpperLetters[i] = c]
    ELSE c

Upper(s) == [i \in DOMAIN s |-> UpperChar(s[i])]

\* re.sub(r'[^...]', '', s): keep the characters of the class
KeepOnly(s, class) == SelectSeq(s, LAMBDA c : c \in class)

\* str.isdigit(): non-empty and every character a digit
isdigit(s) == s # <<>> /\ \A i \in DOMAIN s : IsDigit(s[i])

Zeros(n) == [i \in 1..n |-> "0"]

\* str.zfill(width): zeros on the left, after a leading sign
zfill(s, width) ==
    IF Len(s) >= width THEN s
    ELSE IF s # <<>> /\ s[1] \in {"+", "-"}
         THEN <<s[1]>> \o Zeros(width - Len(s)) \o Tail(s)
         ELSE Zeros(width - Len(s)) \o s

\* s[:n]
Prefix(s, n) == SubSeq(s, 1, IF Len(s) < n THEN Len(s) ELSE n)

RECURSIVE lstrip(_)
lstrip(s) == IF s # <<>> /\ IsSpace(Head(s)) THEN lstrip(Tail(s)) ELSE s

RECURSIVE rstrip(_)
rstrip(s) ==
    IF s # <<>> /\ IsSpace(s[Len(s)]) THEN rstrip(SubSeq(s, 1, Len(s) - 1)) ELSE s

\* str.strip()
strip(s) == rstrip(lstrip(s))

\* re.sub(r'\s+', ' ', s): every maximal run of whitespace becomes one space
RECURSIVE CollapseSpaces(_)
CollapseSpaces(s) ==
    IF s = <<>> THEN <<>>
    ELSE IF IsSpace(Head(s))
         THEN <<" ">> \o CollapseSpaces(lstrip(s))
         ELSE <<Head(s)>> \o CollapseSpaces(Tail(s))

-----------------------------------------------------------------------------
(* Field sanitisers *)

TinLen == 9
PermitLen == 15
ZipMinLen == 5

ZipClass == DigitChars \cup UpperChars
DigitClass == DigitChars
StreetClass == UpperChars \cup LowerChars \cup DigitChars \cup {"-", "/"} \cup Whitespace

\* mutant: zero-fills whatever is left, digits or not
clean_zip_code_PadsAll(zip_code) ==
    zfill(KeepOnly(Upper(zip_code), ZipClass), ZipMinLen)

clean_zip_code(zip_code) ==
    LET z == KeepOnly(Upper(zip_code), ZipClass)
    IN  IF isdigit(z) THEN zfill(z, ZipMinLen) ELSE z

\* mutant: keeps the last nine digits instead of the first nine
clean_tin_KeepsLast(tin) ==
    LET ds == KeepOnly(tin, DigitClass)
    IN  zfill(IF Len(ds) > TinLen THEN SubSeq(ds, Len(ds) - TinLen + 1, Len(ds)) ELSE ds,
              TinLen)

clean_tin(tin) == zfill(Prefix(KeepOnly(tin, DigitClass), TinLen), TinLen)

clean_permit_number(permit) ==
    zfill(Prefix(KeepOnly(permit, DigitClass), PermitLen), PermitLen)

\* mutant: collapses the spaces before the invalid characters are removed
clean_street_address_CollapsesFirst(address) ==
    IF address = <<>> THEN <<>>
    ELSE strip(KeepOnly(CollapseSpaces(SelectSeq(address, LAMBDA c : c # ".")),
                        StreetClass))

clean_street_address(address) ==
    IF address = <<>> THEN <<>>
    ELSE LET a1 == SelectSeq(address, LAMBDA c : c # ".")
             a2 == KeepOnly(a1, StreetClass)
             a3 == CollapseSpaces(a2)
         IN  strip(a3)

-----------------------------------------------------------------------------
(* datetime.strptime, as far as normalize_date uses it *)

f_month ==
  << <<"J", "a", "n", "u", "a", "r", "y">>,
     <<"F", "e", "b", "r", "u", "a", "r", "y">>,
     <<"M", "a", "r", "c", "h">>,
     <<"A", "p", "r", "i", "l">>,
     <<"M", "a", "y">>,
     <<"J", "u", "n", "e">>,
     <<"J", "u", "l", "y">>,
     <<"A", "u", "g", "u", "s", "t">>,
     <<"S", "e", "p", "t", "e", "m", "b", "e", "r">>,
     <<"O", "c", "t", "o", "b", "e", "r">>,
     <<"N", "o", "v", "e", "m", "b", "e", "r">>,
     <<"D", "e", "c", "e", "m", "b", "e", "r">> >>

a_month == [i \in DOMAIN f_month |-> SubSeq(f_month[i], 1, 3)]

\* the order in which the regex of %B tries the names: longest first, the
\* calendar order kept among names of one length (sorted() is stable)
f_month_order == <<9, 2, 11, 12, 1, 10, 8, 3, 4, 6, 7, 5>>
a_month_order == <<1, 2, 3, 4, 5, 6, 7, 8, 9, 10, 11, 12>>

\* the character at position p, "" past the end
At(s, p) == IF p \in DOMAIN s THEN s[p] ELSE ""

NonZeroDigits == DigitChars \ {"0"}

One(len, val) == << [len |-> len, val |-> val] >>
None == << >>

\* 'd': 3[0-1]|[1-2]\d|0[1-9]|[1-9]| [1-9]
DayAlternatives(s, p) ==
    LET c1 == At(s, p)
        c2 == At(s, p + 1)
    IN  (IF c1 = "3" /\ c2 \in {"0", "1"} THEN One(2, 30 + DigitVal(c2)) ELSE None)
        \o (IF c1 \in {"1", "2"} /\ IsDigit(c2)
            THEN One(2, 10 * DigitVal(c1) + DigitVal(c2)) ELSE None)
        \o (IF c1 = "0" /\ c2 \in NonZeroDigits THEN One(2, DigitVal(c2)) ELSE None)
        \o (IF c1 \in NonZeroDigits THEN One(1, DigitVal(c1)) ELSE None)
        \o (IF c1 = " " /\ c2 \in NonZeroDigits THEN One(2, DigitVal(c2)) ELSE None)

\* 'm': 1[0-2]|0[1-9]|[1-9]
MonthAlternatives(s, p) ==
    LET c1 == At(s, p)
        c2 == At(s, p + 1)
    IN  (IF c1 = "1" /\ c2 \in {"0", "1", "2"} THEN One(2, 10 + DigitVal(c2)) ELSE None)
        \o (IF c1 = "0" /\ c2 \in NonZeroDigits THEN One(2, DigitVal(c2)) ELSE None)
        \o (IF c1 \in NonZeroDigits THEN One(1, DigitVal(c1)) ELSE None)

RECURSIVE NumberAt(_, _, _)
\* the value of the n digits at p, -1 when they are not n digits
NumberAt(s, p, n) ==
    IF n = 0 THEN 0
    ELSE LET c == At(s, p + n - 1)
             hi == NumberAt(s, p, n - 1)
         IN  IF IsDigit(c) /\ hi >= 0 THEN 10 * hi + DigitVal(c) ELSE -1

\* 'y': \d\d and 'Y': \d\d\d\d
DigitsAlternatives(s, p, n) ==
    IF NumberAt(s, p, n) >= 0 THEN One(n, NumberAt(s, p, n)) ELSE None

\* whether name stands at p, letter case ignored (re.IGNORECASE)
NameAt(s, p, name) ==
    \A i \in DOMAIN name : LowerChar(At(s, p + i - 1)) = LowerChar(name[i])

RECURSIVE NameAlternatives(_, _, _, _, _)
\* 'B' and 'b': the names in the order given, the month number as value
NameAlternatives(s, p, names, order, k) ==
    IF k > Len(order) THEN None
    ELSE (IF NameAt(s, p, names[order[k]])
          THEN One(Len(names[order[k]]), order[k]) ELSE None)
         \o NameAlternatives(s, p, names, order, k + 1)

RECURSIVE SpaceRun(_, _)
\* how many whitespace characters stand at p
SpaceRun(s, p) == IF IsSpace(At(s, p)) THEN 1 + SpaceRun(s, p + 1) ELSE 0

\* r'\s+': the longest run first, then the shorter ones
SpaceAlternatives(s, p) ==
    LET n == SpaceRun(s, p) IN [k \in 1..n |-> [len |-> n - k + 1, val |-> 0]]

Directives == {"%Y", "%y", "%m", "%d", "%B", "%b"}

\* what one element of a format can match at p, in the regex's order
Alternatives(tok, s, p) ==
    CASE tok = "%d" -> DayAlternatives(s, p)
      [] tok = "%m" -> MonthAlternatives(s, p)
      [] tok = "%y" -> DigitsAlternatives(s, p, 2)
      [] tok = "%Y" -> DigitsAlternatives(s, p, 4)
      [] tok = "%B" -> NameAlternatives(s, p, f_month, f_month_order, 1)
      [] tok = "%b" -> NameAlternatives(s, p, a_month, a_month_order, 1)
      [] tok = " "  -> SpaceAlternatives(s, p)
      [] OTHER      -> IF LowerChar(At(s, p)) = LowerChar(tok) THEN One(1, 0) ELSE None

\* the regex group a directive fills
Group(tok) == IF tok \in {"%B", "%b"} THEN "%m" ELSE tok

NoGroups == [t \in {"%Y", "%y", "%m", "%d"} |-> -1]
NoMatch == [ok |-> FALSE, end |-> 0, got |-> NoGroups]

RECURSIVE MatchFrom(_, _, _, _, _)
RECURSIVE TryAlternatives(_, _, _, _, _, _, _)
RECURSIVE Backtrack(_, _, _, _, _, _, _, _)

\* format_regex.match(data_string): the first match of a backtracking search
MatchFrom(fmt, i, s, p, got) ==
    IF i > Len(fmt) THEN [ok |-> TRUE, end |-> p, got |-> got]
    ELSE TryAlternatives(fmt, i, s, p, got, Alternatives(fmt[i], s, p), 1)

TryAlternatives(fmt, i, s, p, got, alts, k) ==
    IF k > Len(alts) THEN NoMatch
    ELSE Backtrack(MatchFrom(fmt, i + 1, s, p + alts[k].len,
                             IF fmt[i] \in Directives
                             THEN [got EXCEPT ![Group(fmt[i])] = alts[k].val]
                             ELSE got),
                   fmt, i, s, p, got, alts, k)

\* the rest of the pattern matched after this alternative, or the next
\* alternative is tried
Backtrack(found, fmt, i, s, p, got, alts, k) ==
    IF found.ok THEN found ELSE TryAlternatives(fmt, i, s, p, got, alts, k + 1)

IsLeap(y) == y % 4 = 0 /\ (y % 100 # 0 \/ y % 400 = 0)

DaysInMonth(y, m) ==
    IF m = 2 THEN (IF IsLeap(y) THEN 29 ELSE 28)
    ELSE IF m \in {4, 6, 9, 11} THEN 30 ELSE 31

\* the pivot of %y: 00..68 are 2000..2068, 69..99 are 1969..1999
PivotYear == 68

ValueError == [ok |-> FALSE, year |-> 0, month |-> 0, day |-> 0]

\* the date of the groups matched: the century of %y, and the check of the
\* calendar
DateOf(year, month, day) ==
    IF year >= 1 /\ month \in 1..12 /\ day \in 1..DaysInMonth(year, month)
    THEN [ok |-> TRUE, year |-> year, month |-> month, day |-> day]
    ELSE ValueError

\* the match must cover the whole string
Converted(found, s) ==
    IF ~found.ok \/ found.end # Len(s) + 1 THEN ValueError
    ELSE DateOf(IF found.got["%Y"] >= 0 THEN found.got["%Y"]
                ELSE IF found.got["%y"] <= PivotYear THEN 2000 + found.got["%y"]
                ELSE 1900 + found.got["%y"],
                found.got["%m"], found.got["%d"])

\* datetime.strptime(date_str, fmt): the date, or ValueError
strptime(s, fmt) == Converted(MatchFrom(fmt, 1, s, 1, NoGroups), s)

\* n as `width` decimal digits
RECURSIVE Decimal(_, _)
Decimal(n, width) ==
    IF width = 0 THEN <<>> ELSE Append(Decimal(n \div 10, width - 1), Digits[(n % 10) + 1])

\* mutant: the month and the day are written without their leading zero
strftime_Unpadded(year, month, day) ==
    Decimal(year, 4) \o <<"-">> \o Decimal(month, IF month < 10 THEN 1 ELSE 2)
        \o <<"-">> \o Decimal(day, IF day < 10 THEN 1 ELSE 2)

\* mutant: the date is written day first, as '%d-%m-%Y'
strftime_DayFirst(year, month, day) ==
    Decimal(day, 2) \o <<"-">> \o Decimal(month, 2) \o <<"-">> \o Decimal(year, 4)

\* dt.strftime('%Y-%m-%d')
strftime(year, month, day) ==
    Decimal(year, 4) \o <<"-">> \o Decimal(month, 2) \o <<"-">> \o Decimal(day, 2)

-----------------------------------------------------------------------------
(* The date normaliser *)

formats ==
  << <<"%Y", "-", "%m", "-", "%d">>,
     <<"%m", "/", "%d", "/", "%Y">>,
     <<"%m", "/", "%d", "/", "%y">>,
     <<"%m", "-", "%d", "-", "%Y">>,
     <<"%m", "-", "%d", "-", "%y">>,
     <<"%m", "/", "%d", "/", "%Y">>,
     <<"%m", "/", "%d", "/", "%y">>,
     <<"%d", "/", "%m", "/", "%Y">>,
     <<"%d", "/", "%m", "/", "%y">>,
     <<"%d", "-", "%m", "-", "%Y">>,
     <<"%d", "-", "%m", "-", "%y">>,
     <<"%Y", "/", "%m", "/", "%d">>,
     <<"%Y", ".", "%m", ".", "%d">>,
     <<"%B", " ", "%d", ",", " ", "%Y">>,
     <<"%b", " ", "%d", ",", " ", "%Y">>,
     <<"%d", " ", "%B", " ", "%Y">>,
     <<"%d", " ", "%b", " ", "%Y">>,
     <<"%B", " ", "%d", " ", "%Y">>,
     <<"%b", " ", "%d", " ", "%Y">>,
     <<"%Y", "%m", "%d">>,
     <<"%m", "%d", "%Y">>,
     <<"%m", "%d", "%y">> >>

MinYear == 1900
MaxYear == 2100

\* re.match(r'^\d{4}-\d{2}-\d{2}$', date_str)
LooksCanonical(s) ==
    /\ Len(s) = 10
    /\ \A i \in {1, 2, 3, 4, 6, 7, 9, 10} : IsDigit(s[i])
    /\ s[5] = "-" /\ s[8] = "-"

\* the check of the year after a parse
Reasonable(dt) == dt.ok /\ MinYear <= dt.year /\ dt.year <= MaxYear

RECURSIVE LastFormat(_, _, _)
RECURSIVE KeepLast(_, _, _, _)
LastFormat(s, k, found) ==
    IF k > Len(formats) THEN found
    ELSE KeepLast(strptime(s, formats[k]), s, k, found)

KeepLast(dt, s, k, found) ==
    LastFormat(s, k + 1, IF Reasonable(dt) THEN dt ELSE found)

\* mutant: the loop does not return at its first success, the last one stands
TryFormats_KeepsLast(s, k) == LastFormat(s, k, ValueError)

RECURSIVE AnyYear(_, _, _)
\* mutant: the loop returns the first parse without the check of the year
TryFormats_AnyYear(s, k) ==
    IF k > Len(formats) THEN ValueError
    ELSE AnyYear(strptime(s, formats[k]), s, k)

AnyYear(dt, s, k) == IF dt.ok THEN dt ELSE TryFormats_AnyYear(s, k + 1)

RECURSIVE TryFormats(_, _)
RECURSIVE Accept(_, _, _)
\* the loop over formats: the first format that parses to a year of the window
TryFormats(s, k) ==
    IF k > Len(formats) THEN ValueError
    ELSE Accept(strptime(s, formats[k]), s, k)

\* the date is returned if its year is reasonable, else the loop goes on
Accept(dt, s, k) == IF Reasonable(dt) THEN dt ELSE TryFormats(s, k + 1)

\* the outcomes of the dateutil attempt: not reached, failed (the package is
\* missing or refuses the string), or a date
NotTried == [tried |-> FALSE, ok |-> FALSE, year |-> 0, month |-> 0, day |-> 0]
Failed == [tried |-> TRUE, ok |-> FALSE, year |-> 0, month |-> 0, day |-> 0]
Parsed(y, m, d) == [tried |-> TRUE, ok |-> TRUE, year |-> y, month |-> m, day |-> d]

\* The first part of normalize_date, up to the end of the loop over formats:
\* the value returned and the line of the return statement, or done = FALSE
\* when the call goes on to the dateutil attempt.
Reformatted(s, dt) ==
    IF dt.ok
    THEN [done |-> TRUE, value |-> strftime(dt.year, dt.month, dt.day), line |-> 217]
    ELSE [done |-> FALSE, value |-> s, line |-> 219]

Stripped(s) ==
    IF s = <<>> THEN [done |-> TRUE, value |-> <<>>, line |-> 165]
    ELSE IF LooksCanonical(s) THEN [done |-> TRUE, value |-> s, line |-> 171]
    ELSE Reformatted(s, TryFormats(s, 1))

normalize_date_formats(date_str) == Stripped(strip(date_str))

\* The rest of normalize_date: parsed is what parser.parse(date_str,
\* fuzzy=False) came to, date_str being stripped already.
normalize_date_fallback(date_str, parsed) ==
    IF parsed.ok /\ MinYear <= parsed.year /\ parsed.year <= MaxYear
    THEN [done |-> TRUE, value |-> strftime(parsed.year, parsed.month, parsed.day),
          line |-> 226]
    ELSE [done |-> TRUE, value |-> date_str, line |-> 231]

\* normalize_date with the return statement it leaves by
Finished(first, parsed) ==
    IF first.done THEN first ELSE normalize_date_fallback(first.value, parsed)

normalize_date_exit(date_str, parsed) ==
    Finished(normalize_date_formats(date_str), parsed)

normalize_date(date_str, parsed) == normalize_date_exit(date_str, parsed).value

-----------------------------------------------------------------------------
(* Bounded inputs of the date normaliser *)

\* every string over the alphabet of at most n characters
RECURSIVE StringsUpTo(_, _)
StringsUpTo(alphabet, n) ==
    IF n = 0 THEN {<<>>}
    ELSE LET shorter == StringsUpTo(alphabet, n - 1)
         IN  shorter \cup {Append(s, c) : s \in {t \in shorter : Len(t) = n - 1},
                                          c \in alphabet}

MaxPad == 1
MaxTextLen == 3

SampleYears == {1875, 1899, 1900, 1968, 1969, 2025, 2068, 2100, 2101}
SampleMonths == {1, 2, 3, 10, 12}
SampleDays == {1, 12, 13, 20, 29, 31}

IsDate(y, m, d) == m \in 1..12 /\ d \in 1..DaysInMonth(y, m)

\* the formats rendered: each format of the list once
RenderedFormats == (DOMAIN formats) \ {6, 7}

\* a format without separators is rendered zero-padded only
Compact(k) == \A i \in DOMAIN formats[k] : formats[k][i] \in Directives
IsRendering(k, padded) == IF Compact(k) THEN padded ELSE TRUE

RECURSIVE PlainDecimal(_)
\* n in decimal without leading zeros
PlainDecimal(n) ==
    IF n < 10 THEN <<Digits[n + 1]>>
    ELSE Append(PlainDecimal(n \div 10), Digits[(n % 10) + 1])

RenderToken(tok, y, m, d, padded) ==
    CASE tok = "%Y" -> Decimal(y, 4)
      [] tok = "%y" -> Decimal(y % 100, 2)
      [] tok = "%m" -> IF padded THEN Decimal(m, 2) ELSE PlainDecimal(m)
      [] tok = "%d" -> IF padded THEN Decimal(d, 2) ELSE PlainDecimal(d)
      [] tok = "%B" -> f_month[m]
      [] tok = "%b" -> a_month[m]
      [] OTHER      -> <<tok>>

RECURSIVE RenderFrom(_, _, _, _, _, _)
RenderFrom(fmt, i, y, m, d, padded) ==
    IF i > Len(fmt) THEN <<>>
    ELSE RenderToken(fmt[i], y, m, d, padded) \o RenderFrom(fmt, i + 1, y, m, d, padded)

\* the date written in format k, as strftime writes it (padded) or with the
\* month and day numbers bare
Render(k, y, m, d, padded) == RenderFrom(formats[k], 1, y, m, d, padded)

Spaces(n) == [i \in 1..n |-> " "]

TextAlphabet == {"1", "2", "/", " ", "x"}
DateTexts ==
    StringsUpTo(TextAlphabet, MaxTextLen)
        \cup { <<"1", "3", "/", "4", "5", "/", "1", "8", "7", "5">>,
               <<"2", "0", "2", "5", "-", "1", "3", "-", "4", "5">>,
               <<"1", "8", "7", "5", "-", "0", "1", "-", "0", "1">>,
               <<"0", "0", "0", "0", "/", "0", "1", "/", "0", "1">>,
               <<"2", "9", ".", "1", "0", ".", "2", "0", "2", "5">>,
               <<"O", "C", "T", "O", "B", "E", "R", "\t", "2", "9", ",", " ", " ", "2", "0", "2", "5">>,
               <<"1", "0", "/", " ", "5", "/", "2", "0", "2", "5">>,
               <<"n", "o", "t", " ", "a", " ", "d", "a", "t", "e">>,
               <<"1", "0", "/", "2", "9", "/", "2", "0", "2", "5", "x">> }

\* what dateutil may make of a string, should it be reached
DateutilOutcomes == {Failed, Parsed(2025, 10, 29), Parsed(1875, 3, 5)}

-----------------------------------------------------------------------------
(* Bounded inputs of the sanitisers *)

MaxZipLen == 5
MaxStreetLen == 5
MaxDigits == 17

ZipAlphabet == {"0", "5", "a", "K", "-", " "}
ZipInputs ==
    StringsUpTo(ZipAlphabet, MaxZipLen)
        \cup { <<"1", "2", "3", "4">>,
               <<"5", "3", "7", "0", "3">>,
               <<"5", "3", "7", "0", "3", "-", "1", "2", "3", "4">>,
               <<"k", "1", "a", " ", "0", "b", "1">> }

StreetAlphabet == {"N", "7", ".", "#", " ", "\t"}
StreetInputs ==
    StringsUpTo(StreetAlphabet, MaxStreetLen)
        \cup { <<"N", ".", " ", "M", "a", "i", "n", " ", "S", "t", ".">>,
               <<"1", "2", "-", "1", "/", "2", " ", " ", "O", "a", "k", ",", " ", "#", "4">> }

\* n digits, the i-th being (k + i) mod 10: no two windows of it look alike
DigitString(n, k) == [i \in 1..n |-> Digits[((k + i) % 10) + 1]]

InsertAt(s, p, c) == SubSeq(s, 1, p) \o <<c>> \o SubSeq(s, p + 1, Len(s))

NumberPunct == {"-", " ", "x", "."}
NumberInputs ==
    LET plain == {DigitString(n, k) : n \in 0..MaxDigits, k \in {0, 4}}
    IN  plain
        \cup UNION {{InsertAt(s, p, c) : p \in {0, 2, 6} \cap (0..Len(s)), c \in NumberPunct}
                      : s \in plain}
        \cup { <<"1", "2", "-", "3", "4", "5", "6", "7", "8", "9">>,
               <<"1", "2", "3", "4", "5", "6">> }

-----------------------------------------------------------------------------
(* The sanitisers called on their own *)

NoValue == <<"<", "n", "o", "n", "e", ">">>
NoCall == [input |-> NoValue, output |-> NoValue]

\* lxml before it is called: what it does with a text is defined with validate_xml
NotCalled == [kind |-> "none", message |-> <<>>, line |-> 0]

\* a configuration file: whether os.path.exists finds it, whether its bytes
\* decode as UTF-8, and the text they decode to
Missing == [exists |-> FALSE, utf_8 |-> TRUE, text |-> <<>>]
NoOrigin == [kind |-> "none", format |-> 0, year |-> 0, month |-> 0, day |-> 0,
             padded |-> FALSE]

InitClean ==
    /\ pc = "ready"
    /\ fn = "none"
    /\ arg = NoValue
    /\ ret = NoValue
    /\ line = 0
    /\ origin = NoOrigin
    /\ dateutil = NotTried
    /\ shipments = <<>>
    /\ assembled = <<>>
    /\ response = "none"
    /\ earlier = NoCall
    /\ lxml = NotCalled
    /\ filer_config_file = Missing
    /\ defaults_config_file = Missing

CallCleanZip ==
    /\ pc = "ready"
    /\ \E x \in ZipInputs :
          /\ arg' = x
          /\ ret' = clean_zip_code(x)
    /\ fn' = "clean_zip_code"
    /\ pc' = "done"
    /\ UNCHANGED <<line, origin, dateutil, shipments, assembled, response, earlier, lxml,
                 filer_config_file, defaults_config_file>>

CallCleanStreet ==
    /\ pc = "ready"
    /\ \E x \in StreetInputs :
          /\ arg' = x
          /\ ret' = clean_street_address(x)
    /\ fn' = "clean_street_address"
    /\ pc' = "done"
    /\ UNCHANGED <<line, origin, dateutil, shipments, assembled, response, earlier, lxml,
                 filer_config_file, defaults_config_file>>

CallCleanTin ==
    /\ pc = "ready"
    /\ \E x \in NumberInputs :
          /\ arg' = x
          /\ ret' = clean_tin(x)
    /\ fn' = "clean_tin"
    /\ pc' = "done"
    /\ UNCHANGED <<line, origin, dateutil, shipments, assembled, response, earlier, lxml,
                 filer_config_file, defaults_config_file>>

CallCleanPermit ==
    /\ pc = "ready"
    /\ \E x \in NumberInputs :
          /\ arg' = x
          /\ ret' = clean_permit_number(x)
    /\ fn' = "clean_permit_number"
    /\ pc' = "done"
    /\ UNCHANGED <<line, origin, dateutil, shipments, assembled, response, earlier, lxml,
                 filer_config_file, defaults_config_file>>

NextClean == CallCleanZip \/ CallCleanStreet \/ CallCleanTin \/ CallCleanPermit

SpecClean == InitClean /\ [][NextClean]_vars

-----------------------------------------------------------------------------
(* normalize_date called on its own *)

InitDate == InitClean

\* the dateutil attempt has an outcome only in a call that gets that far
FallbackOutcomes(first) == IF first.done THEN {NotTried} ELSE DateutilOutcomes

\* the call on a calendar date written in one of the formats of the list
CallNormalizeRendered ==
    /\ pc = "ready"
    /\ \E k \in RenderedFormats, y \in SampleYears, m \in SampleMonths, d \in SampleDays,
          padded \in BOOLEAN :
          /\ IsDate(y, m, d)
          /\ IsRendering(k, padded)
          /\ \E x \in {Render(k, y, m, d, padded)} :
                /\ arg' = x
                /\ origin' = [kind |-> "rendered", format |-> k, year |-> y,
                              month |-> m, day |-> d, padded |-> padded]
                /\ \E first \in {normalize_date_formats(x)} :
                   \E parsed \in FallbackOutcomes(first) :
                   \E r \in {IF first.done THEN first
                           ELSE normalize_date_fallback(first.value, parsed)} :
                      /\ dateutil' = parsed
                      /\ ret' = r.value
                      /\ line' = r.line
    /\ fn' = "normalize_date"
    /\ pc' = "done"
    /\ UNCHANGED <<shipments, assembled, response, earlier, lxml,
                 filer_config_file, defaults_config_file>>

\* the call on any other text, with or without spaces around it
CallNormalizeText ==
    /\ pc = "ready"
    /\ \E t \in DateTexts, lpad \in 0..MaxPad, rpad \in 0..MaxPad :
          \E x \in {Spaces(lpad) \o t \o Spaces(rpad)} :
             /\ arg' = x
             /\ origin' = [kind |-> "text", format |-> 0, year |-> 0,
                           month |-> 0, day |-> 0, padded |-> FALSE]
             /\ \E first \in {normalize_date_formats(x)} :
                \E parsed \in FallbackOutcomes(first) :
                \E r \in {IF first.done THEN first
                           ELSE normalize_date_fallback(first.value, parsed)} :
                   /\ dateutil' = parsed
                   /\ ret' = r.value
                   /\ line' = r.line
    /\ fn' = "normalize_date"
    /\ pc' = "done"
    /\ UNCHANGED <<shipments, assembled, response, earlier, lxml,
                 filer_config_file, defaults_config_file>>

NextDate == CallNormalizeRendered \/ CallNormalizeText

SpecDate == InitDate /\ [][NextDate]_vars

-----------------------------------------------------------------------------
(* Python dict, float and int as the mapper and the request handlers use them *)

\* '' and {} and None: the values that are false in a condition
Empty == <<>>
Truthy(value) == value # Empty

\* d.get(key, default)
Get(d, key, default) == IF key \in DOMAIN d THEN d[key] ELSE default

\* d[key] = value
Put(d, key, value) ==
    [k \in (DOMAIN d) \cup {key} |-> IF k = key THEN value ELSE d[k]]

\* d.pop(key)
Pop(d, key) == [k \in (DOMAIN d) \ {key} |-> d[k]]

\* d.setdefault(key, value)
setdefault(d, key, value) == IF key \in DOMAIN d THEN d ELSE Put(d, key, value)

\* a float as the decimal it was read from: num / 10^scale, without trailing
\* zeros in the fraction
Float(neg, num, scale) == [ok |-> TRUE, neg |-> neg, num |-> num, scale |-> scale]
FloatError == [ok |-> FALSE, neg |-> FALSE, num |-> 0, scale |-> 0]

RECURSIVE Reduced(_, _, _)
Reduced(neg, num, scale) ==
    IF scale > 0 /\ num % 10 = 0 THEN Reduced(neg, num \div 10, scale - 1)
    ELSE Float(neg, num, scale)

\* the sign and the unsigned rest of a number's text
Signed(s) == Len(s) > 0 /\ s[1] \in {"+", "-"}
Unsigned(s) == IF Signed(s) THEN Tail(s) ELSE s

\* float(value) of a text of sign, digits and decimal point (no exponent, no
\* underscore, no inf or nan): ValueError on anything else
float(value) ==
    LET s == strip(value)
        body == Unsigned(s)
        dots == {i \in DOMAIN body : body[i] = "."}
        digits == KeepOnly(body, DigitChars)
    IN  IF \/ Cardinality(dots) > 1
           \/ digits = <<>>
           \/ \E i \in DOMAIN body : body[i] \notin DigitChars \cup {"."}
        THEN FloatError
        ELSE Reduced(Signed(s) /\ s[1] = "-",
                     NumberAt(digits, 1, Len(digits)),
                     IF dots = {} THEN 0 ELSE Len(body) - (CHOOSE i \in dots : TRUE))

\* int(value) of a text of sign and digits: ValueError on anything else
IntError == [ok |-> FALSE, value |-> 0]
int(value) ==
    LET s == strip(value)
        body == Unsigned(s)
    IN  IF body = <<>> \/ \E i \in DOMAIN body : body[i] \notin DigitChars
        THEN IntError
        ELSE [ok |-> TRUE,
              value |-> IF Signed(s) /\ s[1] = "-"
                        THEN 0 - NumberAt(body, 1, Len(body))
                        ELSE NumberAt(body, 1, Len(body))]

\* str.capitalize
capitalize(s) ==
    [i \in DOMAIN s |-> IF i = 1 THEN UpperChar(s[i]) ELSE LowerChar(s[i])]

-----------------------------------------------------------------------------
(* The column mapper: CSVMapper.map_to_common_carrier and
   map_to_fulfillment_house *)

\* the synonym tables, in the order the dict is iterated
COMMON_CARRIER_MAPPINGS ==
    <<<<"Ship To Company", "consignee_name">>, <<"Consignee Name", "consignee_name">>,
      <<"Company", "consignee_name">>, <<"Name", "consignee_name">>,
      <<"Ship To Street", "consignee_address_line1">>, <<"Ship To Address", "consignee_address_line1">>,
      <<"Address", "consignee_address_line1">>, <<"Street", "consignee_address_line1">>,
      <<"Address Line 1", "consignee_address_line1">>, <<"AddressLine1", "consignee_address_line1">>,
      <<"Ship To City", "consignee_city">>, <<"City", "consignee_city">>,
      <<"Ship To State", "consignee_state">>, <<"State", "consignee_state">>,
      <<"Ship To Zip", "consignee_zip">>, <<"Zip", "consignee_zip">>,
      <<"ZIP", "consignee_zip">>, <<"Zip Code", "consignee_zip">>,
      <<"ZipCode", "consignee_zip">>, <<"Tracking Nos", "tracking_number">>,
      <<"Tracking Number", "tracking_number">>, <<"Tracking #", "tracking_number">>,
      <<"Tracking", "tracking_number">>, <<"TrackingNumber", "tracking_number">>,
      <<"Order Date", "shipment_date">>, <<"Shipment Date", "shipment_date">>,
      <<"Date", "shipment_date">>, <<"Ship Date", "shipment_date">>,
      <<"LB", "weight_of_beverages">>, <<"Weight", "weight_of_beverages">>,
      <<"Weight (lbs)", "weight_of_beverages">>, <<"Pounds", "weight_of_beverages">>,
      <<"TYPE", "beverage_type">>, <<"Type", "beverage_type">>,
      <<"Beverage Type", "beverage_type">>, <<"BeverageType", "beverage_type">>>>

FULFILLMENT_HOUSE_MAPPINGS ==
    <<<<"Ship To Company", "consignee_name">>, <<"Consignee Name", "consignee_name">>,
      <<"Company", "consignee_name">>, <<"Name", "consignee_name">>,
      <<"Ship To Street", "consignee_address_line1">>, <<"Ship To Address", "consignee_address_line1">>,
      <<"Address", "consignee_address_line1">>, <<"Street", "consignee_address_line1">>,
      <<"Address Line 1", "consignee_address_line1">>, <<"AddressLine1", "consignee_address_line1">>,
      <<"Ship To City", "consignee_city">>, <<"City", "consignee_city">>,
      <<"Ship To State", "consignee_state">>, <<"State", "consignee_state">>,
      <<"Ship To Zip", "consignee_zip">>, <<"Zip", "consignee_zip">>,
      <<"ZIP", "consignee_zip">>, <<"Zip Code", "consignee_zip">>,
      <<"ZipCode", "consignee_zip">>, <<"Tracking Nos", "tracking_number">>,
      <<"Tracking Number", "tracking_number">>, <<"Tracking #", "tracking_number">>,
      <<"Tracking", "tracking_number">>, <<"TrackingNumber", "tracking_number">>,
      <<"Order Date", "shipment_date">>, <<"Shipment Date", "shipment_date">>,
      <<"Date", "shipment_date">>, <<"Ship Date", "shipment_date">>,
      <<"BOTTLE COUNT", "bottle_count">>, <<"Bottle Count", "bottle_count">>,
      <<"BottleCount", "bottle_count">>, <<"Bottles", "bottle_count">>,
      <<"Count", "bottle_count">>, <<"Qty", "bottle_count">>,
      <<"Quantity", "bottle_count">>, <<"SIZE", "bottle_size_ml">>,
      <<"Size", "bottle_size_ml">>, <<"Bottle Size", "bottle_size_ml">>,
      <<"BottleSize", "bottle_size_ml">>, <<"ML", "bottle_size_ml">>,
      <<"Size (ml)", "bottle_size_ml">>>>

BeverageTypes == {<<"B", "E", "E", "R">>, <<"W", "I", "N", "E">>, <<"S", "P", "I", "R", "I", "T", "S">>, <<"U", "N", "K", "N", "O", "W", "N">>}

\* the amounts in millilitres below 3000 that end in 50 and whose division by
\* 1000 is a double above the decimal, so that round(x, 1) goes up
RoundsUp == {50, 450, 550, 650, 1050, 1350, 1550, 1850, 2350, 2450, 2850, 2950}

\* round(total_ml / 1000, 1), in tenths of a litre
RoundTenths(total_ml) ==
    LET q == total_ml \div 100
        r == total_ml % 100
    IN  IF r < 50 THEN q
        ELSE IF r > 50 THEN q + 1
        ELSE IF total_ml % 500 = 250 THEN (IF q % 2 = 0 THEN q ELSE q + 1)
        ELSE IF total_ml \in RoundsUp THEN q + 1 ELSE q

bottles_to_liters(bottle_count, bottle_size_ml) ==
    LET total_ml == bottle_count * bottle_size_ml
    IN  IF total_ml < 0 THEN Reduced(TRUE, RoundTenths(0 - total_ml), 1)
        ELSE Reduced(FALSE, RoundTenths(total_ml), 1)

\* what the loop over one row gives: the shipment, or the exception raised
Mapped(shipment) == [raised |-> FALSE, shipment |-> shipment]
Raised == [raised |-> TRUE, shipment |-> Empty]

\* mutant: a weight that is no number is kept as the text it was
common_carrier_field_KeepsText(shipment, xml_field, value, parsed) ==
    CASE xml_field = "shipment_date" ->
            Mapped(Put(shipment, xml_field, normalize_date(value, parsed)))
      [] xml_field = "consignee_zip" ->
            Mapped(Put(shipment, xml_field, clean_zip_code(value)))
      [] xml_field \in {"consignee_address_line1", "consignee_address_line2"} ->
            Mapped(Put(shipment, xml_field, clean_street_address(value)))
      [] xml_field = "weight_of_beverages" ->
            IF float(value).ok THEN Mapped(Put(shipment, xml_field, float(value)))
            ELSE Mapped(Put(shipment, xml_field, value))
      [] xml_field = "beverage_type" ->
            Mapped(Put(shipment, xml_field,
                       IF Upper(capitalize(value)) \notin BeverageTypes
                       THEN <<"U", "n", "k", "n", "o", "w", "n">> ELSE capitalize(value)))
      [] OTHER -> Mapped(Put(shipment, xml_field, value))

\* the transformation and assignment of one Common Carrier field
common_carrier_field(shipment, xml_field, value, parsed) ==
    CASE xml_field = "shipment_date" ->
            Mapped(Put(shipment, xml_field, normalize_date(value, parsed)))
      [] xml_field = "consignee_zip" ->
            Mapped(Put(shipment, xml_field, clean_zip_code(value)))
      [] xml_field \in {"consignee_address_line1", "consignee_address_line2"} ->
            Mapped(Put(shipment, xml_field, clean_street_address(value)))
      [] xml_field = "weight_of_beverages" ->
            IF float(value).ok THEN Mapped(Put(shipment, xml_field, float(value)))
            ELSE Raised
      [] xml_field = "beverage_type" ->
            Mapped(Put(shipment, xml_field,
                       IF Upper(capitalize(value)) \notin BeverageTypes
                       THEN <<"U", "n", "k", "n", "o", "w", "n">> ELSE capitalize(value)))
      [] OTHER -> Mapped(Put(shipment, xml_field, value))

\* the transformation and assignment of one Fulfillment House field
fulfillment_house_field(shipment, xml_field, value, parsed) ==
    CASE xml_field = "shipment_date" ->
            Mapped(Put(shipment, xml_field, normalize_date(value, parsed)))
      [] xml_field = "consignee_zip" ->
            Mapped(Put(shipment, xml_field, clean_zip_code(value)))
      [] xml_field \in {"consignee_address_line1", "consignee_address_line2"} ->
            Mapped(Put(shipment, xml_field, clean_street_address(value)))
      [] xml_field \in {"bottle_count", "bottle_size_ml"} ->
            IF int(value).ok THEN Mapped(Put(shipment, xml_field, int(value).value))
            ELSE Raised
      [] OTHER -> Mapped(Put(shipment, xml_field, value))

RECURSIVE MapFields_FirstWins(_, _, _, _, _, _)
\* mutant: a field that an earlier entry of the table has filled is left alone
MapFields_FirstWins(report_type, mappings, i, row, shipment, parsed) ==
    IF i > Len(mappings) THEN Mapped(shipment)
    ELSE IF /\ mappings[i][1] \in DOMAIN row /\ Truthy(row[mappings[i][1]])
            /\ \A k \in 1..(i - 1) :
                  mappings[k][2] = mappings[i][2] /\ mappings[k][1] \in DOMAIN row
                  => ~Truthy(row[mappings[k][1]])
         THEN LET r == IF report_type = "CommonCarrier"
                       THEN common_carrier_field(shipment, mappings[i][2],
                                                 row[mappings[i][1]], parsed)
                       ELSE fulfillment_house_field(shipment, mappings[i][2],
                                                    row[mappings[i][1]], parsed)
              IN  IF r.raised THEN Raised
                  ELSE MapFields_FirstWins(report_type, mappings, i + 1, row, r.shipment,
                                           parsed)
         ELSE MapFields_FirstWins(report_type, mappings, i + 1, row, shipment, parsed)

RECURSIVE MapFields(_, _, _, _, _, _)
\* the loop over the synonym table for one row
MapFields(report_type, mappings, i, row, shipment, parsed) ==
    IF i > Len(mappings) THEN Mapped(shipment)
    ELSE IF mappings[i][1] \in DOMAIN row /\ Truthy(row[mappings[i][1]])
         THEN LET r == IF report_type = "CommonCarrier"
                       THEN common_carrier_field(shipment, mappings[i][2],
                                                 row[mappings[i][1]], parsed)
                       ELSE fulfillment_house_field(shipment, mappings[i][2],
                                                    row[mappings[i][1]], parsed)
              IN  IF r.raised THEN Raised
                  ELSE MapFields(report_type, mappings, i + 1, row, r.shipment, parsed)
         ELSE MapFields(report_type, mappings, i + 1, row, shipment, parsed)

\* the consignor block of a new shipment
consignor_block(default_consignor) ==
    [f \in {"consignor_name", "consignor_address_line1", "consignor_address_line2",
            "consignor_city", "consignor_state", "consignor_zip", "permit_number"} |->
        CASE f = "consignor_name" -> Get(default_consignor, "name", Empty)
          [] f = "consignor_address_line1" -> Get(default_consignor, "address_line1", Empty)
          [] f = "consignor_address_line2" -> Get(default_consignor, "address_line2", Empty)
          [] f = "consignor_city" -> Get(default_consignor, "city", Empty)
          [] f = "consignor_state" -> Get(default_consignor, "state", Empty)
          [] f = "consignor_zip" -> Get(default_consignor, "zip", Empty)
          [] f = "permit_number" -> Get(default_consignor, "permit_number", Empty)]

\* the manufacturer block of a new shipment
manufacturer_block(default_manufacturer, common_carrier_permit) ==
    [f \in {"manufacturer_name", "manufacturer_address_line1",
            "manufacturer_address_line2", "manufacturer_city", "manufacturer_state",
            "manufacturer_zip", "wine_permit_number", "common_carrier_permit_number"} |->
        CASE f = "manufacturer_name" -> Get(default_manufacturer, "name", Empty)
          [] f = "manufacturer_address_line1" -> Get(default_manufacturer, "address_line1", Empty)
          [] f = "manufacturer_address_line2" -> Get(default_manufacturer, "address_line2", Empty)
          [] f = "manufacturer_city" -> Get(default_manufacturer, "city", Empty)
          [] f = "manufacturer_state" -> Get(default_manufacturer, "state", Empty)
          [] f = "manufacturer_zip" -> Get(default_manufacturer, "zip", Empty)
          [] f = "wine_permit_number" -> Get(default_manufacturer, "wine_permit_number", Empty)
          [] f = "common_carrier_permit_number" -> common_carrier_permit]

\* the optional fields of a Common Carrier shipment
common_carrier_optional(shipment) ==
    setdefault(setdefault(setdefault(shipment, "tracking_number", Empty),
                          "bill_of_lading_number", Empty),
               "consignee_address_line2", Empty)

\* the conversion of the bottles and the optional fields of a Fulfillment
\* House shipment
fulfillment_house_optional(shipment) ==
    LET converted ==
            IF "bottle_count" \in DOMAIN shipment /\ "bottle_size_ml" \in DOMAIN shipment
            THEN Put(Pop(Pop(shipment, "bottle_count"), "bottle_size_ml"),
                     "quantity_of_wine",
                     bottles_to_liters(shipment["bottle_count"], shipment["bottle_size_ml"]))
            ELSE shipment
    IN  setdefault(setdefault(setdefault(converted, "tracking_number", Empty),
                              "consignee_address_line2", Empty),
                   "different_consignor_name", Empty)

\* what a mapper gives: the shipments, or the exception raised
Shipments(list) == [raised |-> FALSE, shipments |-> list]
ValueErrorRaised == [raised |-> TRUE, shipments |-> <<>>]

RECURSIVE MapRows(_, _, _, _, _, _, _)
\* the loop over the rows
MapRows(report_type, mappings, csv_rows, i, block, list, parsed) ==
    IF i > Len(csv_rows) THEN Shipments(list)
    ELSE LET r == MapFields(report_type, mappings, 1, csv_rows[i], block, parsed)
         IN  IF r.raised THEN ValueErrorRaised
             ELSE MapRows(report_type, mappings, csv_rows, i + 1, block,
                          Append(list, IF report_type = "CommonCarrier"
                                       THEN common_carrier_optional(r.shipment)
                                       ELSE fulfillment_house_optional(r.shipment)),
                          parsed)

map_to_common_carrier(csv_rows, default_consignor, parsed) ==
    MapRows("CommonCarrier", COMMON_CARRIER_MAPPINGS, csv_rows, 1,
            consignor_block(default_consignor), <<>>, parsed)

map_to_fulfillment_house(csv_rows, default_manufacturer, common_carrier_permit, parsed) ==
    MapRows("FulfillmentHouse", FULFILLMENT_HOUSE_MAPPINGS, csv_rows, 1,
            manufacturer_block(default_manufacturer, common_carrier_permit), <<>>, parsed)

\* mappings[col] and col in mappings, of a synonym table
HasEntry(mappings, col) == \E k \in DOMAIN mappings : mappings[k][1] = col
Entry(mappings, col) == mappings[CHOOSE k \in DOMAIN mappings : mappings[k][1] = col][2]

\* mutant: the recommended fields of a Common Carrier report, for both types
Recommended_OfCommonCarrier(report_type) ==
    <<"consignee_name", "consignee_address_line1", "consignee_city",
      "consignee_state", "consignee_zip", "shipment_date", "weight_of_beverages">>

\* the recommended fields of a report type
Recommended(report_type) ==
    IF report_type = "CommonCarrier"
    THEN <<"consignee_name", "consignee_address_line1", "consignee_city",
           "consignee_state", "consignee_zip", "shipment_date", "weight_of_beverages">>
    ELSE <<"consignee_name", "consignee_address_line1", "consignee_city",
           "consignee_state", "consignee_zip", "shipment_date", "bottle_count",
           "bottle_size_ml">>

\* the report of the columns found and of what is missing; the two lists of
\* columns come in the iteration order of a set, and are sets here
MappingReport(mapped, unmapped, missing) ==
    [mapped_columns |-> mapped,
     unmapped_columns |-> unmapped,
     missing_recommended |-> missing,
     warnings |->
        (IF unmapped # {} THEN <<<<"unmapped columns", Cardinality(unmapped)>>>> ELSE <<>>)
        \o (IF missing # <<>> THEN <<<<"missing recommended fields", Len(missing)>>>>
            ELSE <<>>)]

\* mutant: a column is reported only when the first row has a value in it
get_mapping_report_ValuedOnly(csv_rows, report_type) ==
    IF csv_rows = <<>> THEN MappingReport({}, {}, <<>>)
    ELSE LET mappings == IF report_type = "CommonCarrier" THEN COMMON_CARRIER_MAPPINGS
                         ELSE FULFILLMENT_HOUSE_MAPPINGS
             csv_columns == {c \in DOMAIN csv_rows[1] : Truthy(csv_rows[1][c])}
             IsMissing(field) ==
                 \A col \in csv_columns :
                    HasEntry(mappings, col) => Entry(mappings, col) # field
         IN  MappingReport(
                {<<col, Entry(mappings, col)>> :
                    col \in {c \in csv_columns : HasEntry(mappings, c)}},
                {col \in csv_columns : ~HasEntry(mappings, col)},
                SelectSeq(Recommended(report_type), IsMissing))

get_mapping_report(csv_rows, report_type) ==
    IF csv_rows = <<>> THEN MappingReport({}, {}, <<>>)
    ELSE LET mappings == IF report_type = "CommonCarrier" THEN COMMON_CARRIER_MAPPINGS
                         ELSE FULFILLMENT_HOUSE_MAPPINGS
             csv_columns == DOMAIN csv_rows[1]
             IsMissing(field) ==
                 \A col \in csv_columns :
                    HasEntry(mappings, col) => Entry(mappings, col) # field
         IN  MappingReport(
                {<<col, Entry(mappings, col)>> :
                    col \in {c \in csv_columns : HasEntry(mappings, c)}},
                {col \in csv_columns : ~HasEntry(mappings, col)},
                SelectSeq(Recommended(report_type), IsMissing))

-----------------------------------------------------------------------------
(* The request handlers: map_csv and generate_xml of app.py *)

\* ConfigManager.get_default_consignor and get_default_manufacturer
get_default_consignor ==
    [k \in {"name", "address_line1", "address_line2", "city", "state", "zip",
            "permit_number"} |-> IF k = "state" THEN <<"W", "I">> ELSE Empty]
get_default_manufacturer ==
    [k \in {"name", "address_line1", "address_line2", "city", "state", "zip",
            "wine_permit_number"} |-> IF k = "state" THEN <<"W", "I">> ELSE Empty]

\* the mapping step of map_csv
map_csv(report_type, defaults, csv_rows, parsed) ==
    IF report_type = "CommonCarrier"
    THEN map_to_common_carrier(csv_rows,
                               Get(defaults, "consignor", get_default_consignor), parsed)
    ELSE map_to_fulfillment_house(csv_rows,
                                  Get(defaults, "manufacturer", get_default_manufacturer),
                                  Get(defaults, "common_carrier_permit", Empty), parsed)

\* shipment[field] = block.get(key, shipment.get(field, ''))
Reapply(shipment, field, block, key) ==
    Put(shipment, field, Get(block, key, Get(shipment, field, Empty)))

\* mutant: the default is taken only where the shipment has no value yet
ReapplyConsignor_MergeIfMissing(shipment, consignor) ==
    LET Merge(s, field, key) ==
            IF Truthy(Get(s, field, Empty)) THEN s ELSE Reapply(s, field, consignor, key)
    IN  Merge(Merge(Merge(Merge(Merge(Merge(Merge(shipment,
            "consignor_name", "name"),
            "consignor_address_line1", "address_line1"),
            "consignor_address_line2", "address_line2"),
            "consignor_city", "city"),
            "consignor_state", "state"),
            "consignor_zip", "zip"),
            "permit_number", "permit_number")

\* the Common Carrier branch of the loop of generate_xml
ReapplyConsignor(shipment, consignor) ==
    Reapply(Reapply(Reapply(Reapply(Reapply(Reapply(Reapply(shipment,
        "consignor_name", consignor, "name"),
        "consignor_address_line1", consignor, "address_line1"),
        "consignor_address_line2", consignor, "address_line2"),
        "consignor_city", consignor, "city"),
        "consignor_state", consignor, "state"),
        "consignor_zip", consignor, "zip"),
        "permit_number", consignor, "permit_number")

\* the Fulfillment House branch of the loop of generate_xml
ReapplyManufacturer(shipment, defaults) ==
    LET manufacturer == defaults["manufacturer"]
        addressed ==
            Reapply(Reapply(Reapply(Reapply(Reapply(Reapply(shipment,
                "manufacturer_name", manufacturer, "name"),
                "manufacturer_address_line1", manufacturer, "address_line1"),
                "manufacturer_address_line2", manufacturer, "address_line2"),
                "manufacturer_city", manufacturer, "city"),
                "manufacturer_state", manufacturer, "state"),
                "manufacturer_zip", manufacturer, "zip")
        permitted ==
            IF Truthy(Get(manufacturer, "wine_permit_number", Empty))
            THEN Put(addressed, "wine_permit_number", manufacturer["wine_permit_number"])
            ELSE addressed
    IN  IF Truthy(Get(defaults, "common_carrier_permit", Empty))
        THEN Put(permitted, "common_carrier_permit_number", defaults["common_carrier_permit"])
        ELSE permitted

\* one round of the loop of generate_xml over the shipments
reapply_defaults(shipment, report_type, defaults, parsed) ==
    LET dated ==
            IF "shipment_date" \in DOMAIN shipment /\ Truthy(shipment["shipment_date"])
            THEN Put(shipment, "shipment_date",
                     normalize_date(shipment["shipment_date"], parsed))
            ELSE shipment
    IN  IF report_type = "CommonCarrier"
        THEN ReapplyConsignor(dated, Get(defaults, "consignor", Empty))
        ELSE IF report_type = "FulfillmentHouse" /\ Truthy(Get(defaults, "manufacturer", Empty))
             THEN ReapplyManufacturer(dated, defaults)
             ELSE dated

\* mutant: the loop stops after the first shipment
ReapplyAll_FirstOnly(list, report_type, defaults, parsed) ==
    [i \in DOMAIN list |->
        IF i = 1 THEN reapply_defaults(list[i], report_type, defaults, parsed)
        ELSE list[i]]

\* the loop of generate_xml over the shipments
ReapplyAll(list, report_type, defaults, parsed) ==
    [i \in DOMAIN list |-> reapply_defaults(list[i], report_type, defaults, parsed)]

\* the normalisation of a tax period date
tax_period(date_str, parsed) ==
    IF Truthy(date_str) THEN normalize_date(date_str, parsed) ELSE Empty

\* mutant: the email is checked before the tax period
request_check_EmailFirst(filer_data, list, tax_period_begin, tax_period_end, ack_email) ==
    IF ~Truthy(filer_data) THEN "Filer data is required"
    ELSE IF ~Truthy(list) THEN "At least one shipment is required"
    ELSE IF ~Truthy(ack_email) THEN "Acknowledgement email is required"
    ELSE IF ~Truthy(tax_period_begin) \/ ~Truthy(tax_period_end)
         THEN "Tax period dates are required"
    ELSE "assembled"

\* the checks of the request, in their order
request_check(filer_data, list, tax_period_begin, tax_period_end, ack_email) ==
    IF ~Truthy(filer_data) THEN "Filer data is required"
    ELSE IF ~Truthy(list) THEN "At least one shipment is required"
    ELSE IF ~Truthy(tax_period_begin) \/ ~Truthy(tax_period_end)
         THEN "Tax period dates are required"
    ELSE IF ~Truthy(ack_email) THEN "Acknowledgement email is required"
    ELSE "assembled"

\* what generate_xml hands to the Document Assembler, and its first answer
generate_xml(data, parsed) ==
    LET list == ReapplyAll(data.shipments, data.report_type, data.defaults, parsed)
        tax_period_begin == tax_period(data.tax_period_begin, parsed)
        tax_period_end == tax_period(data.tax_period_end, parsed)
    IN  [response |-> request_check(data.filer_data, list, tax_period_begin,
                                    tax_period_end, data.ack_email),
         report_type |-> data.report_type,
         filer_data |-> data.filer_data,
         shipments |-> list,
         tax_period_begin |-> tax_period_begin,
         tax_period_end |-> tax_period_end,
         ack_email |-> data.ack_email,
         amended |-> data.amended]

-----------------------------------------------------------------------------
(* The requests sent to map_csv and generate_xml *)

ReportTypes == {"CommonCarrier", "FulfillmentHouse"}

AcmeConsignor ==
    ("name" :> <<"A", "c", "m", "e">>) @@
    ("zip" :> <<"1", "2", "3", "4">>)

ZedConsignor ==
    ("name" :> <<"Z", "e", "d">>) @@
    ("address_line1" :> <<"1", " ", "E", "l", "m">>) @@
    ("address_line2" :> Empty) @@
    ("city" :> <<"E", "a", "u">>) @@
    ("state" :> <<"W", "I">>) @@
    ("zip" :> <<"5", "3", "7", "0", "3">>) @@
    ("permit_number" :> <<"1", "2", "3", "4", "5", "6">>)

BlankConsignor ==
    ("name" :> Empty) @@
    ("address_line1" :> Empty) @@
    ("address_line2" :> Empty) @@
    ("city" :> Empty) @@
    ("state" :> Empty) @@
    ("zip" :> Empty) @@
    ("permit_number" :> Empty)

VinManufacturer ==
    ("name" :> <<"V", "i", "n">>) @@
    ("address_line1" :> <<"2", " ", "O", "a", "k">>) @@
    ("address_line2" :> <<"B">>) @@
    ("city" :> <<"E", "a", "u">>) @@
    ("state" :> <<"W", "I">>) @@
    ("zip" :> <<"5", "4", "7", "0", "1">>) @@
    ("wine_permit_number" :> <<"0", "0", "0", "0", "0", "0", "0", "0", "0", "0", "0", "0", "7", "7", "7">>)

BlankManufacturer ==
    ("name" :> Empty) @@
    ("address_line1" :> Empty) @@
    ("address_line2" :> Empty) @@
    ("city" :> Empty) @@
    ("state" :> Empty) @@
    ("zip" :> Empty) @@
    ("wine_permit_number" :> Empty)

CruManufacturer ==
    ("name" :> <<"C", "r", "u">>) @@
    ("wine_permit_number" :> <<"7", "7", "-", "7">>)

\* the defaults records: partial, full, blank and absent

AcmeDefaults ==
    ("consignor" :> AcmeConsignor) @@
    ("manufacturer" :> CruManufacturer)

ZedDefaults ==
    ("consignor" :> ZedConsignor) @@
    ("manufacturer" :> VinManufacturer) @@
    ("common_carrier_permit" :> <<"0", "0", "0", "0", "0", "0", "0", "0", "0", "0", "0", "0", "8", "8", "8">>)

BlankDefaults ==
    ("consignor" :> BlankConsignor) @@
    ("manufacturer" :> BlankManufacturer) @@
    ("common_carrier_permit" :> Empty)

DefaultsSamples ==
    {AcmeDefaults, ZedDefaults, BlankDefaults, Empty}

BobRow ==
    ("Ship To Company" :> <<"B", "o", "b">>) @@
    ("Ship To Zip" :> <<"5", "3", "7", "0", "3">>) @@
    ("LB" :> <<"1", "0">>) @@
    ("Order Date" :> <<"3", "/", "5", "/", "2", "4">>)

AlRow ==
    ("Name" :> <<"A", "l">>) @@
    ("Address" :> <<"N", ".", " ", "M", "a", "i", "n", " ", "S", "t", ".">>) @@
    ("City" :> <<"E", "a", "u">>) @@
    ("State" :> <<"W", "I">>) @@
    ("Zip" :> <<"5", "3", "7">>) @@
    ("Date" :> <<"2", "9", ".", "1", "0", ".", "2", "0", "2", "5">>) @@
    ("Weight" :> <<" ", "1", "0", ".", "5", "0">>) @@
    ("Type" :> <<"w", "i", "n", "e">>) @@
    ("Tracking" :> <<"T", "1">>) @@
    ("Notes" :> <<"x">>)

WineRow ==
    ("Ship To Company" :> <<"B", "o", "b">>) @@
    ("Company" :> <<"C", "y">>) @@
    ("ZIP" :> <<"5", "3", "7", "0", "3", "-", "1", "2", "3", "4">>) @@
    ("Order Date" :> <<"O", "c", "t", "o", "b", "e", "r", " ", "2", "9", ",", " ", "2", "0", "2", "5">>) @@
    ("Bottles" :> <<"6">>) @@
    ("Size" :> <<"3", "7", "5">>)

BadRow ==
    ("Name" :> <<"A", "l">>) @@
    ("LB" :> <<"a", "b", "c">>) @@
    ("Qty" :> <<"1", ".", "5">>)

ShortRow ==
    ("Name" :> Empty) @@
    ("LB" :> Empty) @@
    ("Bottles" :> <<"1", "2">>)

CaseRow ==
    ("Bottles" :> <<"1", "2">>) @@
    ("Size" :> <<"7", "5", "0">>) @@
    AlRow

\* the rows as csv.DictReader returns them: every row has every header of the
\* text, with an empty value where the line has none
DictReader(rows) ==
    [i \in DOMAIN rows |->
        [h \in UNION {DOMAIN rows[j] : j \in DOMAIN rows} |-> Get(rows[i], h, Empty)]]

\* the body of a mapping request, after the CSV text is parsed: the header is
\* the first line of the text, the rows are the lines below it
CsvRequest(report_type, defaults, rows) ==
    [report_type |-> report_type, defaults |-> defaults,
     csv_header |-> UNION {DOMAIN rows[j] : j \in DOMAIN rows},
     csv_rows |-> DictReader(rows)]

\* the bodies of the mapping requests; the last one is a text of one line, the
\* header

MapRequests ==
    { CsvRequest("CommonCarrier", AcmeDefaults, <<BobRow>>),
      CsvRequest("CommonCarrier", ZedDefaults, <<AlRow, WineRow>>),
      CsvRequest("CommonCarrier", BlankDefaults, <<BobRow>>),
      CsvRequest("CommonCarrier", Empty, <<AlRow, WineRow>>),
      CsvRequest("CommonCarrier", ZedDefaults, <<ShortRow, BadRow>>),
      CsvRequest("FulfillmentHouse", ZedDefaults, <<AlRow, WineRow>>),
      CsvRequest("FulfillmentHouse", AcmeDefaults, <<WineRow, ShortRow>>),
      CsvRequest("FulfillmentHouse", Empty, <<BobRow>>),
      CsvRequest("FulfillmentHouse", BlankDefaults, <<ShortRow, BadRow>>),
      CsvRequest("CommonCarrier", ZedDefaults, <<AlRow>>),
      CsvRequest("FulfillmentHouse", ZedDefaults, <<CaseRow, CaseRow>>),
      [report_type |-> "CommonCarrier", defaults |-> AcmeDefaults,
       csv_header |-> {"Name", "Notes"}, csv_rows |-> <<>>] }

\* the columns of the sheet the sample rows are taken from, left to right
SheetColumns ==
    <<"Name", "Ship To Company", "Company", "Address", "City", "State", "Zip", "ZIP",
      "Ship To Zip", "Date", "Order Date", "Weight", "LB", "Qty", "Type", "Tracking",
      "Bottles", "Size", "Notes">>

Reversed(s) == [i \in DOMAIN s |-> s[Len(s) + 1 - i]]

\* the header line of a CSV text with these columns: as the sheet has them, or
\* from right to left
ColumnOrders(csv_header) ==
    {SelectSeq(SheetColumns, LAMBDA h : h \in csv_header),
     Reversed(SelectSeq(SheetColumns, LAMBDA h : h \in csv_header))}

PunctuatedFiler ==
    ("tin_type" :> <<"F", "E", "I", "N">>) @@
    ("tin_value" :> <<"1", "2", "-", "3", "4", "5", "6", "7", "8", "9">>) @@
    ("business_name_line1" :> <<"A", "c", "m", "e">>) @@
    ("address_line1" :> <<"1", " ", "E", "l", "m">>) @@
    ("city" :> <<"E", "a", "u">>) @@
    ("state" :> <<"W", "I">>) @@
    ("zip" :> <<"5", "3", "7", "0", "3">>)

PlainFiler ==
    ("tin_type" :> <<"S", "S", "N">>) @@
    ("tin_value" :> <<"1", "2", "3", "4", "5", "6", "7", "8", "9">>) @@
    ("business_name_line1" :> <<"Z", "e", "d">>) @@
    ("address_line1" :> <<"1", " ", "E", "l", "m">>) @@
    ("city" :> <<"E", "a", "u">>) @@
    ("state" :> <<"W", "I">>) @@
    ("zip" :> <<"5", "3", "7", "0", "3">>)

\* the rest of a generation request: filer, tax period, email, amended

CompleteRest ==
    [filer_data |-> PunctuatedFiler, tax_period_begin |-> <<"1", "0", "/", "1", "/", "2", "0", "2", "5">>,
     tax_period_end |-> <<"1", "0", "/", "3", "1", "/", "2", "0", "2", "5">>, ack_email |-> <<"a", "@", "b", ".", "c">>, amended |-> FALSE]

AmendedRest ==
    [filer_data |-> PlainFiler, tax_period_begin |-> <<"2", "0", "2", "5", "-", "1", "0", "-", "0", "1">>,
     tax_period_end |-> <<"2", "9", ".", "1", "0", ".", "2", "0", "2", "5">>, ack_email |-> <<"a", "@", "b", ".", "c">>, amended |-> TRUE]

NoFilerRest ==
    [filer_data |-> Empty, tax_period_begin |-> <<"1", "0", "/", "1", "/", "2", "0", "2", "5">>,
     tax_period_end |-> <<"1", "0", "/", "3", "1", "/", "2", "0", "2", "5">>, ack_email |-> <<"a", "@", "b", ".", "c">>, amended |-> FALSE]

NoPeriodRest ==
    [filer_data |-> PlainFiler, tax_period_begin |-> Empty,
     tax_period_end |-> <<"2", "0", "2", "5", "-", "1", "0", "-", "3", "1">>, ack_email |-> Empty, amended |-> FALSE]

NoEmailRest ==
    [filer_data |-> PlainFiler, tax_period_begin |-> <<"1", "0", "/", "1", "/", "2", "0", "2", "5">>,
     tax_period_end |-> <<"2", "0", "2", "5", "-", "1", "0", "-", "3", "1">>, ack_email |-> Empty, amended |-> FALSE]

\* the generation requests, but for the shipments they carry

GenerateRequests ==
    {<<report_type, defaults, CompleteRest>> :
        report_type \in ReportTypes, defaults \in DefaultsSamples}
    \cup {<<"CommonCarrier", AcmeDefaults, AmendedRest>>,
          <<"FulfillmentHouse", ZedDefaults, AmendedRest>>,
          <<"CommonCarrier", ZedDefaults, NoFilerRest>>,
          <<"FulfillmentHouse", ZedDefaults, NoPeriodRest>>,
          <<"CommonCarrier", BlankDefaults, NoEmailRest>>}

-----------------------------------------------------------------------------
(* The requests served one after the other; shipments is the batch the caller
   holds, as the last successful mapping returned it *)

Init ==
    /\ pc = "ready"
    /\ fn = "none"
    /\ arg = NoValue
    /\ ret = NoValue
    /\ line = 0
    /\ origin = NoOrigin
    /\ dateutil \in {Failed, Parsed(2025, 10, 29)}
    /\ shipments = <<>>
    /\ assembled = <<>>
    /\ response = "none"
    /\ earlier = NoCall
    /\ lxml = NotCalled
    /\ filer_config_file = Missing
    /\ defaults_config_file = Missing

\* POST /api/csv/map
MapCsv ==
    /\ \E data \in MapRequests :
          \E fieldnames \in ColumnOrders(data.csv_header) :
          \E r \in {map_csv(data.report_type, data.defaults, data.csv_rows, dateutil)} :
             /\ arg' = [report_type |-> data.report_type, defaults |-> data.defaults,
                        csv_header |-> data.csv_header, csv_rows |-> data.csv_rows,
                        fieldnames |-> fieldnames]
             /\ ret' = [raised |-> r.raised, shipments |-> r.shipments,
                        mapping_report |->
                            get_mapping_report(data.csv_rows, data.report_type)]
             /\ shipments' = IF r.raised THEN shipments ELSE r.shipments
             /\ response' = IF r.raised THEN "failed" ELSE "mapped"
    /\ fn' = "map_csv"
    /\ assembled' = <<>>
    /\ lxml' = NotCalled
    /\ UNCHANGED <<pc, line, origin, dateutil, earlier,
                 filer_config_file, defaults_config_file>>

\* POST /api/xml/generate, up to the call of the Document Assembler
GenerateXml ==
    /\ \E request \in GenerateRequests :
          \E data \in {[report_type |-> request[1], defaults |-> request[2],
                        shipments |-> shipments, filer_data |-> request[3].filer_data,
                        tax_period_begin |-> request[3].tax_period_begin,
                        tax_period_end |-> request[3].tax_period_end,
                        ack_email |-> request[3].ack_email,
                        amended |-> request[3].amended]} :
          \E r \in {generate_xml(data, dateutil)} :
             /\ arg' = data
             /\ assembled' = IF r.response = "assembled" THEN r ELSE <<>>
             /\ response' = r.response
    /\ fn' = "generate_xml"
    /\ ret' = NoValue
    /\ UNCHANGED <<pc, line, origin, dateutil, shipments, earlier, lxml,
                 filer_config_file, defaults_config_file>>

Next == MapCsv \/ GenerateXml

Spec == Init /\ [][Next]_vars

-----------------------------------------------------------------------------
(* The Document Assembler: XMLGenerator.generate_xml of xml_generator.py.
   An element is its tag, its text and its children; the XML text is the
   sequence of its lines *)

SubElement(tag, text, children) == [tag |-> tag, text |-> text, children |-> children]

\* etree.SubElement(parent, tag).text = text
Leaf(tag, text) == <<SubElement(tag, text, <<>>)>>

\* an element that gets children and no text
Node(tag, children) == <<SubElement(tag, Empty, children)>>

\* mutant: the element is written whether the value is empty or not
Optional_AlwaysWritten(tag, data, key) == Leaf(tag, Get(data, key, Empty))

\* if data.get(key): etree.SubElement(parent, tag).text = data[key]
Optional(tag, data, key) ==
    IF Truthy(Get(data, key, Empty)) THEN Leaf(tag, data[key]) ELSE <<>>

\* mutant: the root element of the call before is taken again
Element_KeptFromLastCall(tag) ==
    IF fn = "XMLGenerator.generate_xml" /\ ~ret.raised /\ ret.root.tag = tag
    THEN ret.root
    ELSE SubElement(tag, Empty, <<>>)

\* etree.Element(root_tag): a new element, without children
Element(tag) == SubElement(tag, Empty, <<>>)

\* the digits of a natural number
RECURSIVE NaturalText(_)
NaturalText(n) ==
    IF n < 10 THEN <<Digits[n + 1]>> ELSE Append(NaturalText(n \div 10), Digits[(n % 10) + 1])

\* str(x) of a float: the shortest decimal, with one decimal place at least
str(x) ==
    IF x = Empty THEN Empty
    ELSE (IF x.neg THEN <<"-">> ELSE <<>>)
         \o NaturalText(x.num \div (10 ^ x.scale)) \o <<".">>
         \o (IF x.scale = 0 THEN <<"0">> ELSE Decimal(x.num % (10 ^ x.scale), x.scale))

\* the keys a block of address fields is read by
AddressKeys(line1, line2, city, state, zip) ==
    [line1 |-> line1, line2 |-> line2, city |-> city, state |-> state, zip |-> zip]

FilerAddress == AddressKeys("address_line1", "address_line2", "city", "state", "zip")
ConsignorAddress ==
    AddressKeys("consignor_address_line1", "consignor_address_line2", "consignor_city",
                "consignor_state", "consignor_zip")
ConsigneeAddress ==
    AddressKeys("consignee_address_line1", "consignee_address_line2", "consignee_city",
                "consignee_state", "consignee_zip")
ManufacturerAddress ==
    AddressKeys("manufacturer_address_line1", "manufacturer_address_line2",
                "manufacturer_city", "manufacturer_state", "manufacturer_zip")
DifferentConsignorAddress ==
    AddressKeys("different_consignor_address_line1", "different_consignor_address_line2",
                "different_consignor_city", "different_consignor_state",
                "different_consignor_zip")

\* an address element: line 1, line 2 if there is one, city, state, ZIP
AddressElement(tag, data, keys) ==
    Node(tag, Leaf("AddressLine1", data[keys.line1])
              \o Optional("AddressLine2", data, keys.line2)
              \o Leaf("City", data[keys.city])
              \o Leaf("State", data[keys.state])
              \o Leaf("ZIP", data[keys.zip]))

\* the Filer element
FilerElement(filer_data) ==
    Node("Filer",
         Node("TIN", Leaf("TypeTIN", Get(filer_data, "tin_type", <<"F", "E", "I", "N">>))
                     \o Leaf("TINTypeValue", filer_data["tin_value"]))
         \o Optional("StateEIN", filer_data, "state_ein")
         \o Node("Name", Leaf("BusinessNameLine1", filer_data["business_name_line1"])
                         \o Optional("BusinessNameLine2", filer_data, "business_name_line2"))
         \o AddressElement("Address", filer_data, FilerAddress))

\* mutant: the indicator is written whatever amended is
AmendedReturnIndicator_Always(amended) == Leaf("AmendedReturnIndicator", <<"X">>)

\* if amended: the AmendedReturnIndicator element
AmendedReturnIndicator(amended) ==
    IF amended THEN Leaf("AmendedReturnIndicator", <<"X">>) ELSE <<>>

\* XMLGenerator._add_common_carrier_shipment
add_common_carrier_shipment(data) ==
    Node("Shipment",
         Leaf("ConsignorName", data["consignor_name"])
         \o AddressElement("ConsignorAddress", data, ConsignorAddress)
         \o Optional("PermitNumber", data, "permit_number")
         \o Leaf("ConsigneeName", data["consignee_name"])
         \o AddressElement("ConsigneeAddress", data, ConsigneeAddress)
         \o Leaf("ShipmentDate", data["shipment_date"])
         \o Optional("BeverageType", data, "beverage_type")
         \o Leaf("WeightOfBeverages", str(data["weight_of_beverages"]))
         \o Leaf("TrackingNumber", Get(data, "tracking_number", Empty))
         \o Optional("BillOfLadingNumber", data, "bill_of_lading_number"))

\* the DifferentConsignor element, if the shipment names a different consignor
DifferentConsignor(data) ==
    IF Truthy(Get(data, "different_consignor_name", Empty))
    THEN Node("DifferentConsignor",
              Leaf("ConsignorName", data["different_consignor_name"])
              \o AddressElement("ConsignorAddress", data, DifferentConsignorAddress))
    ELSE <<>>

\* XMLGenerator._add_fulfillment_house_shipment
add_fulfillment_house_shipment(data) ==
    Node("Shipment",
         AddressElement("ManufacturerAddress", data, ManufacturerAddress)
         \o Leaf("WinePermitNumber", data["wine_permit_number"])
         \o Leaf("ManufacturerName", data["manufacturer_name"])
         \o Leaf("ConsigneeName", data["consignee_name"])
         \o AddressElement("ConsigneeAddress", data, ConsigneeAddress)
         \o Leaf("ShipmentDate", data["shipment_date"])
         \o Leaf("TrackingNumber", Get(data, "tracking_number", Empty))
         \o Leaf("CommonCarrierPermitNumber", data["common_carrier_permit_number"])
         \o Leaf("QuantityOfWine", str(data["quantity_of_wine"]))
         \o DifferentConsignor(data))

\* the keys read with data[key], in the order of the statements that read them
FilerSubscripts ==
    <<"tin_value", "business_name_line1", "address_line1", "city", "state", "zip">>

CommonCarrierSubscripts ==
    <<"consignor_name", "consignor_address_line1", "consignor_city", "consignor_state",
      "consignor_zip", "consignee_name", "consignee_address_line1", "consignee_city",
      "consignee_state", "consignee_zip", "shipment_date", "weight_of_beverages">>

FulfillmentHouseSubscripts(data) ==
    <<"manufacturer_address_line1", "manufacturer_city", "manufacturer_state",
      "manufacturer_zip", "wine_permit_number", "manufacturer_name", "consignee_name",
      "consignee_address_line1", "consignee_city", "consignee_state", "consignee_zip",
      "shipment_date", "common_carrier_permit_number", "quantity_of_wine">>
    \o (IF Truthy(Get(data, "different_consignor_name", Empty))
        THEN <<"different_consignor_address_line1", "different_consignor_city",
               "different_consignor_state", "different_consignor_zip">>
        ELSE <<>>)

ShipmentSubscripts(report_type, data) ==
    IF report_type = "CommonCarrier" THEN CommonCarrierSubscripts
    ELSE FulfillmentHouseSubscripts(data)

\* the first of the keys that the dict lacks, "" if it has them all
FirstMissing(data, keys) ==
    IF \A k \in DOMAIN keys : keys[k] \in DOMAIN data THEN ""
    ELSE keys[CHOOSE k \in DOMAIN keys :
                 /\ keys[k] \notin DOMAIN data
                 /\ \A j \in 1..(k - 1) : keys[j] \in DOMAIN data]

\* the first shipment whose element cannot be built, 0 if there is none
FirstIncomplete(report_type, list) ==
    IF \A i \in DOMAIN list :
          FirstMissing(list[i], ShipmentSubscripts(report_type, list[i])) = ""
    THEN 0
    ELSE CHOOSE i \in DOMAIN list :
            /\ FirstMissing(list[i], ShipmentSubscripts(report_type, list[i])) # ""
            /\ \A j \in 1..(i - 1) :
                  FirstMissing(list[j], ShipmentSubscripts(report_type, list[j])) = ""

\* the Shipment elements, in the order of the list
RECURSIVE ShipmentElements(_, _, _)
ShipmentElements(report_type, list, i) ==
    IF i > Len(list) THEN <<>>
    ELSE (IF report_type = "CommonCarrier" THEN add_common_carrier_shipment(list[i])
          ELSE add_fulfillment_house_shipment(list[i]))
         \o ShipmentElements(report_type, list, i + 1)

\* the names of the elements as they are written
TagName ==
    [CommonCarrier |-> <<"C", "o", "m", "m", "o", "n", "C", "a", "r", "r", "i", "e", "r">>,
     FulfillmentHouse |-> <<"F", "u", "l", "f", "i", "l", "l", "m", "e", "n", "t", "H", "o", "u", "s", "e">>,
     TaxPeriodBeginDate |-> <<"T", "a", "x", "P", "e", "r", "i", "o", "d", "B", "e", "g", "i", "n", "D", "a", "t", "e">>,
     TaxPeriodEndDate |-> <<"T", "a", "x", "P", "e", "r", "i", "o", "d", "E", "n", "d", "D", "a", "t", "e">>,
     Filer |-> <<"F", "i", "l", "e", "r">>,
     TIN |-> <<"T", "I", "N">>,
     TypeTIN |-> <<"T", "y", "p", "e", "T", "I", "N">>,
     TINTypeValue |-> <<"T", "I", "N", "T", "y", "p", "e", "V", "a", "l", "u", "e">>,
     StateEIN |-> <<"S", "t", "a", "t", "e", "E", "I", "N">>,
     Name |-> <<"N", "a", "m", "e">>,
     BusinessNameLine1 |-> <<"B", "u", "s", "i", "n", "e", "s", "s", "N", "a", "m", "e", "L", "i", "n", "e", "1">>,
     BusinessNameLine2 |-> <<"B", "u", "s", "i", "n", "e", "s", "s", "N", "a", "m", "e", "L", "i", "n", "e", "2">>,
     Address |-> <<"A", "d", "d", "r", "e", "s", "s">>,
     AddressLine1 |-> <<"A", "d", "d", "r", "e", "s", "s", "L", "i", "n", "e", "1">>,
     AddressLine2 |-> <<"A", "d", "d", "r", "e", "s", "s", "L", "i", "n", "e", "2">>,
     City |-> <<"C", "i", "t", "y">>,
     State |-> <<"S", "t", "a", "t", "e">>,
     ZIP |-> <<"Z", "I", "P">>,
     AckAddress |-> <<"A", "c", "k", "A", "d", "d", "r", "e", "s", "s">>,
     AmendedReturnIndicator |-> <<"A", "m", "e", "n", "d", "e", "d", "R", "e", "t", "u", "r", "n", "I", "n", "d", "i", "c", "a", "t", "o", "r">>,
     Shipment |-> <<"S", "h", "i", "p", "m", "e", "n", "t">>,
     ConsignorName |-> <<"C", "o", "n", "s", "i", "g", "n", "o", "r", "N", "a", "m", "e">>,
     ConsignorAddress |-> <<"C", "o", "n", "s", "i", "g", "n", "o", "r", "A", "d", "d", "r", "e", "s", "s">>,
     PermitNumber |-> <<"P", "e", "r", "m", "i", "t", "N", "u", "m", "b", "e", "r">>,
     ConsigneeName |-> <<"C", "o", "n", "s", "i", "g", "n", "e", "e", "N", "a", "m", "e">>,
     ConsigneeAddress |-> <<"C", "o", "n", "s", "i", "g", "n", "e", "e", "A", "d", "d", "r", "e", "s", "s">>,
     ShipmentDate |-> <<"S", "h", "i", "p", "m", "e", "n", "t", "D", "a", "t", "e">>,
     BeverageType |-> <<"B", "e", "v", "e", "r", "a", "g", "e", "T", "y", "p", "e">>,
     WeightOfBeverages |-> <<"W", "e", "i", "g", "h", "t", "O", "f", "B", "e", "v", "e", "r", "a", "g", "e", "s">>,
     TrackingNumber |-> <<"T", "r", "a", "c", "k", "i", "n", "g", "N", "u", "m", "b", "e", "r">>,
     BillOfLadingNumber |-> <<"B", "i", "l", "l", "O", "f", "L", "a", "d", "i", "n", "g", "N", "u", "m", "b", "e", "r">>,
     ManufacturerAddress |-> <<"M", "a", "n", "u", "f", "a", "c", "t", "u", "r", "e", "r", "A", "d", "d", "r", "e", "s", "s">>,
     WinePermitNumber |-> <<"W", "i", "n", "e", "P", "e", "r", "m", "i", "t", "N", "u", "m", "b", "e", "r">>,
     ManufacturerName |-> <<"M", "a", "n", "u", "f", "a", "c", "t", "u", "r", "e", "r", "N", "a", "m", "e">>,
     CommonCarrierPermitNumber |-> <<"C", "o", "m", "m", "o", "n", "C", "a", "r", "r", "i", "e", "r", "P", "e", "r", "m", "i", "t", "N", "u", "m", "b", "e", "r">>,
     QuantityOfWine |-> <<"Q", "u", "a", "n", "t", "i", "t", "y", "O", "f", "W", "i", "n", "e">>,
     DifferentConsignor |-> <<"D", "i", "f", "f", "e", "r", "e", "n", "t", "C", "o", "n", "s", "i", "g", "n", "o", "r">>]

\* the escapes of the serialiser in the text of an element
RECURSIVE Escaped(_)
Escaped(text) ==
    IF text = <<>> THEN <<>>
    ELSE (CASE Head(text) = "&" -> <<"&", "a", "m", "p", ";">>
            [] Head(text) = "<" -> <<"&", "l", "t", ";">>
            [] Head(text) = ">" -> <<"&", "g", "t", ";">>
            [] OTHER -> <<Head(text)>>)
         \o Escaped(Tail(text))

OpenTag(tag) == <<"<">> \o TagName[tag] \o <<">">>
CloseTag(tag) == <<"<", "/">> \o TagName[tag] \o <<">">>

\* the serialiser writes a line feed of a text as it is, so that a text
\* with line feeds in it lies on several lines of the document
LineFeed == "\n"

\* str.split('\n'): the pieces of a text between its line feeds
RECURSIVE SplitLines(_)
SplitLines(text) ==
    IF \A k \in DOMAIN text : text[k] # LineFeed THEN <<text>>
    ELSE LET k == CHOOSE k \in DOMAIN text :
                     text[k] = LineFeed /\ \A j \in 1..(k - 1) : text[j] # LineFeed
         IN <<SubSeq(text, 1, k - 1)>> \o SplitLines(SubSeq(text, k + 1, Len(text)))

\* the lines of an element under pretty_print, two spaces a level
RECURSIVE Lines(_, _)
RECURSIVE LinesOfAll(_, _, _)
Lines(element, indent) ==
    IF element.children = <<>>
    THEN SplitLines(Spaces(indent) \o OpenTag(element.tag) \o Escaped(element.text)
                    \o CloseTag(element.tag))
    ELSE <<Spaces(indent) \o OpenTag(element.tag)>>
         \o LinesOfAll(element.children, 1, indent + 2)
         \o <<Spaces(indent) \o CloseTag(element.tag)>>

LinesOfAll(children, i, indent) ==
    IF i > Len(children) THEN <<>>
    ELSE Lines(children[i], indent) \o LinesOfAll(children, i + 1, indent)

XmlDeclaration == <<"<", "?", "x", "m", "l", " ", "v", "e", "r", "s", "i", "o", "n", "=", "'", "1", ".", "0", "'", " ", "e", "n", "c", "o", "d", "i", "n", "g", "=", "'", "U", "T", "F", "-", "8", "'", "?", ">">>

\* XMLGenerator._to_xml_string: the declaration, the lines of the tree, and
\* the empty string after the last newline
to_xml_string(root) == <<XmlDeclaration>> \o Lines(root, 0) \o <<Empty>>

\* what generate_xml gives: the text (and the tree it was written from), or
\* the KeyError raised on the key
Document(root) ==
    [raised |-> FALSE, key |-> "", root |-> root, xml_string |-> to_xml_string(root)]
KeyError(key) ==
    [raised |-> TRUE, key |-> key, root |-> SubElement("", Empty, <<>>), xml_string |-> <<>>]

\* the root with the children that one call appends to it
Appended(root, children) == SubElement(root.tag, root.text, root.children \o children)

\* XMLGenerator.generate_xml, self.report_type being report_type
XMLGenerator_generate_xml(report_type, filer_data, list, tax_period_begin, tax_period_end, ack_email, amended) ==
    IF FirstMissing(filer_data, FilerSubscripts) # ""
    THEN KeyError(FirstMissing(filer_data, FilerSubscripts))
    ELSE IF FirstIncomplete(report_type, list) # 0
    THEN KeyError(FirstMissing(list[FirstIncomplete(report_type, list)],
                               ShipmentSubscripts(report_type,
                                                  list[FirstIncomplete(report_type, list)])))
    ELSE Document(Appended(Element(report_type),
                           Leaf("TaxPeriodBeginDate", tax_period_begin)
                           \o Leaf("TaxPeriodEndDate", tax_period_end)
                           \o FilerElement(filer_data)
                           \o Leaf("AckAddress", ack_email)
                           \o AmendedReturnIndicator(amended)
                           \o ShipmentElements(report_type, list, 1)))

-----------------------------------------------------------------------------
(* The Validation Translator: XMLGenerator.validate_xml and
   XMLGenerator._enhance_validation_error of xml_generator.py. The message
   and the values are sequences of characters, the XML text is the sequence
   of its lines (xml_string.split('\n')), and a report is the sequence of its
   parts: a part is a line of the report, given by its fixed text and the
   values written into it. Of a run of lines of fixed text the first line is
   written, and the pictographs are left out *)

\* s[i - 1:].startswith(sub)
StartsAt(s, i, sub) ==
    /\ i + Len(sub) - 1 <= Len(s)
    /\ \A k \in DOMAIN sub : s[i + k - 1] = sub[k]

\* sub in s
In(sub, s) == \E i \in 1..(Len(s) + 1) : StartsAt(s, i, sub)

\* s.find(sub): the first place, counted from 0, or -1
find(s, sub) ==
    IF In(sub, s)
    THEN (CHOOSE i \in 1..(Len(s) + 1) :
             /\ StartsAt(s, i, sub)
             /\ \A j \in 1..(i - 1) : ~StartsAt(s, j, sub)) - 1
    ELSE 0 - 1

\* str.lower()
lower(s) == [i \in DOMAIN s |-> LowerChar(s[i])]

\* mutant: only the first c is taken out
replace_FirstOnly(s, c) ==
    IF c \in Range(s)
    THEN LET i == CHOOSE i \in DOMAIN s : s[i] = c /\ \A j \in 1..(i - 1) : s[j] # c
         IN  SubSeq(s, 1, i - 1) \o SubSeq(s, i + 1, Len(s))
    ELSE s

\* s.replace(c, ''), and re.sub of a class of characters by ''
replace(s, c) == SelectSeq(s, LAMBDA x : x # c)
Without(s, class) == SelectSeq(s, LAMBDA x : x \notin class)

\* sub in xml_string, for a sub without line break
InText(sub, xml_lines) == \E n \in DOMAIN xml_lines : In(sub, xml_lines[n])

\* the number of characters before line n of the text
RECURSIVE Before(_, _)
Before(xml_lines, n) ==
    IF n = 1 THEN 0 ELSE Before(xml_lines, n - 1) + Len(xml_lines[n - 1]) + 1

\* xml_string.find(sub), for a sub without line break
find_in_text(xml_lines, sub) ==
    IF InText(sub, xml_lines)
    THEN LET n == CHOOSE n \in DOMAIN xml_lines :
                     /\ In(sub, xml_lines[n])
                     /\ \A k \in 1..(n - 1) : ~In(sub, xml_lines[k])
         IN  Before(xml_lines, n) + find(xml_lines[n], sub)
    ELSE 0 - 1

NotFound == [matched |-> FALSE, group |-> Empty]

\* re.search(r"value '([^']*)'", s), and the same with the other quote: the
\* first "value '" that a quote follows, and the text up to that quote
search_value(s, quote) ==
    LET from == find(s, <<"v", "a", "l", "u", "e", " ">> \o <<quote>>) + 8
    IN  IF from = 7 \/ \A q \in from..Len(s) : s[q] # quote THEN NotFound
        ELSE [matched |-> TRUE,
              group |-> SubSeq(s, from,
                               (CHOOSE q \in from..Len(s) :
                                   /\ s[q] = quote
                                   /\ \A j \in from..(q - 1) : s[j] # quote) - 1)]

\* the end of the run of digits that begins at i
RECURSIVE RunEnd(_, _)
RunEnd(s, i) == IF i < Len(s) /\ IsDigit(s[i + 1]) THEN RunEnd(s, i + 1) ELSE i

\* int(re.search(r"line (\d+)", s).group(1)), and 0 where the search finds
\* nothing: line_number is only tested for truth and compared
search_line(s) ==
    LET found == {i \in DOMAIN s : /\ StartsAt(s, i, <<"l", "i", "n", "e", " ">>)
                                  /\ i + 5 <= Len(s)
                                  /\ IsDigit(s[i + 5])}
    IN  IF found = {} THEN 0
        ELSE LET i == CHOOSE i \in found : \A j \in found : i <= j
             IN  NumberAt(s, i + 5, RunEnd(s, i + 5) - i - 4)

\* re.search(r'<ZIP>([^<]*)</ZIP>', s)
search_zip(s) ==
    LET found == {i \in DOMAIN s :
                     /\ StartsAt(s, i, <<"<", "Z", "I", "P", ">">>)
                     /\ \E q \in (i + 5)..Len(s) :
                           /\ StartsAt(s, q, <<"<", "/", "Z", "I", "P", ">">>)
                           /\ \A j \in (i + 5)..(q - 1) : s[j] # "<"}
    IN  IF found = {} THEN NotFound
        ELSE LET i == CHOOSE i \in found : \A j \in found : i <= j
             IN  [matched |-> TRUE,
                  group |-> SubSeq(s, i + 5,
                                   (CHOOSE q \in (i + 5)..Len(s) :
                                       /\ s[q] = "<"
                                       /\ \A j \in (i + 5)..(q - 1) : s[j] # "<") - 1)]

\* the opening tags that tell the sections of the document apart, in the
\* order in which a line is tested for them
Markers ==
    <<<<"<", "F", "i", "l", "e", "r", ">">>,
      <<"<", "C", "o", "n", "s", "i", "g", "n", "o", "r", "A", "d", "d", "r", "e", "s", "s",
          ">">>,
      <<"<", "M", "a", "n", "u", "f", "a", "c", "t", "u", "r", "e", "r", "A", "d", "d", "r", "e",
          "s", "s", ">">>,
      <<"<", "C", "o", "n", "s", "i", "g", "n", "e", "e", "A", "d", "d", "r", "e", "s", "s",
          ">">>>>

\* the first of the markers that the line holds, 0 if it holds none
MarkerIn(xml_line) ==
    IF \A m \in DOMAIN Markers : ~In(Markers[m], xml_line) THEN 0
    ELSE CHOOSE m \in DOMAIN Markers :
            /\ In(Markers[m], xml_line)
            /\ \A k \in 1..(m - 1) : ~In(Markers[k], xml_line)

\* how far above the reported line the markers are looked for
ScanReach == 20

\* for i in range(line_number - 1, max(0, line_number - 20), -1): the marker
\* of the first line that holds one, from xml_lines[i] upwards, 0 if none does
RECURSIVE ScanUp(_, _, _)
ScanUp(xml_lines, i, stop) ==
    IF i <= stop THEN 0
    ELSE IF MarkerIn(xml_lines[i + 1]) # 0 THEN MarkerIn(xml_lines[i + 1])
    ELSE ScanUp(xml_lines, i - 1, stop)

\* the marker found from the line number of the message, 0 if there is no
\* line number, if the text is shorter, or if no line in reach holds a marker
NearestMarker(xml_lines, line_number) ==
    IF line_number # 0 /\ line_number <= Len(xml_lines)
    THEN ScanUp(xml_lines, line_number - 1,
                IF line_number - ScanReach > 0 THEN line_number - ScanReach ELSE 0)
    ELSE 0

\* one line of the report
Part(text, values) == <<[text |-> text, values |-> values]>>
Fixed(text) == Part(text, <<>>)

\* ', '.join(issues)
RECURSIVE join(_)
join(issues) ==
    IF issues = <<>> THEN Empty
    ELSE IF Len(issues) = 1 THEN issues[1]
    ELSE issues[1] \o <<",", " ">> \o join(Tail(issues))

\* the lines every report begins with
Header ==
    Fixed("VALIDATION FAILED - Please Fix the Following:")
    \o Fixed("NOTE: Fixing one error at a time - there may be more after you fix this one.")
    \o Fixed("Just fix this issue and click 'Generate & Validate' again to check for others.")

\* the lines every report ends with
Footer ==
    Fixed("AFTER FIXING:")

\* location, step_num and section of the address a marker stands for
AddressLocations ==
    <<[location |-> <<"Y", "O", "U", "R", " ", "B", "U", "S", "I", "N", "E", "S", "S", " ", "A",
        "D", "D", "R", "E", "S", "S">>,
       step_num |-> <<"2">>,
       section |-> <<"F", "i", "l", "e", "r", " ", "I", "n", "f", "o", "r", "m", "a", "t", "i",
           "o", "n">>],
      [location |-> <<"S", "E", "N", "D", "E", "R", "'", "S", " ", "A", "D", "D", "R", "E", "S",
          "S", " ", "(", "C", "o", "n", "s", "i", "g", "n", "o", "r", ")">>,
       step_num |-> <<"4">>,
       section |-> <<"D", "e", "f", "a", "u", "l", "t", " ", "C", "o", "n", "s", "i", "g", "n",
           "o", "r", " ", "I", "n", "f", "o", "r", "m", "a", "t", "i", "o", "n">>],
      [location |-> <<"M", "A", "N", "U", "F", "A", "C", "T", "U", "R", "E", "R", "'", "S", " ",
          "A", "D", "D", "R", "E", "S", "S", " ", "(", "W", "i", "n", "e", "r", "y", ")">>,
       step_num |-> <<"4">>,
       section |-> <<"D", "e", "f", "a", "u", "l", "t", " ", "M", "a", "n", "u", "f", "a", "c",
           "t", "u", "r", "e", "r", " ", "I", "n", "f", "o", "r", "m", "a", "t", "i", "o",
           "n">>],
      [location |-> <<"R", "E", "C", "I", "P", "I", "E", "N", "T", "'", "S", " ", "A", "D", "D",
          "R", "E", "S", "S", " ", "(", "C", "o", "n", "s", "i", "g", "n", "e", "e", ")">>,
       step_num |-> <<"5">>,
       section |-> <<"s", "h", "i", "p", "m", "e", "n", "t", " ", "d", "a", "t", "a", " ", "(",
           "f", "r", "o", "m", " ", "C", "S", "V", " ", "o", "r", " ", "t", "a", "b", "l", "e",
           ")">>]>>

\* mutant: the address is taken for the first section of the text, whatever
\* line the message speaks of
AddressWhere_FirstInText(xml_lines, line_number) ==
    IF InText(Markers[1], xml_lines) THEN AddressLocations[1]
    ELSE IF InText(Markers[2], xml_lines) THEN AddressLocations[2]
    ELSE IF InText(Markers[3], xml_lines) THEN AddressLocations[3]
    ELSE AddressLocations[4]

\* the address the message is about: the one of the nearest marker above the
\* line, or, without one, the first of consignor, manufacturer and consignee
\* address that the text has, or the address of the filer
AddressWhere(xml_lines, line_number) ==
    IF NearestMarker(xml_lines, line_number) # 0
    THEN AddressLocations[NearestMarker(xml_lines, line_number)]
    ELSE IF InText(Markers[2], xml_lines) THEN AddressLocations[2]
    ELSE IF InText(Markers[3], xml_lines) THEN AddressLocations[3]
    ELSE IF InText(Markers[4], xml_lines) THEN AddressLocations[4]
    ELSE AddressLocations[1]

\* the lines of the report on an address, invalid_value and the location known
AddressReport(invalid_value, where) ==
    (IF invalid_value # Empty
     THEN Part("PROBLEM: Invalid street address in {location}", <<where.location>>)
          \o Part("INVALID ADDRESS: {invalid_value}", <<invalid_value>>)
          \o (IF "." \in Range(invalid_value)
              THEN Fixed("Issue: Contains period (.)")
                   \o Part("Quick Fix: Change {invalid_value} to {clean_addr}",
                           <<invalid_value, replace(invalid_value, ".")>>)
              ELSE <<>>)
     ELSE Part("PROBLEM: Missing or empty street address in {location}",
               <<where.location>>))
    \o Part("WHERE TO FIX: Go to Step {step_num} - {section}",
            <<where.step_num, where.section>>)
    \o Fixed("HOW TO FIX:")
    \o (IF \/ In(<<"C", "o", "n", "s", "i", "g", "n", "o", "r">>, where.location)
           \/ In(<<"M", "a", "n", "u", "f", "a", "c", "t", "u", "r", "e", "r">>, where.location)
        THEN Fixed("1. Scroll up to Step 4: Default Values")
             \o Part("2. Find the '{section}' section", <<where.section>>)
             \o Fixed("3. Fill in the 'Address Line 1' field (REQUIRED)")
        ELSE IF \/ In(<<"C", "o", "n", "s", "i", "g", "n", "e", "e">>, where.location)
                \/ In(<<"R", "E", "C", "I", "P", "I", "E", "N", "T">>, where.location)
        THEN (IF invalid_value # Empty /\ "." \in Range(invalid_value)
              THEN Fixed("The recipient address has a PERIOD (.) which isn't allowed!")
                   \o Fixed("EASIEST FIX - Re-import your CSV (periods will be auto-removed):")
                   \o Fixed("OR manually edit the address in the table:")
                   \o Part("2. Find the address: {invalid_value}", <<invalid_value>>)
                   \o Part("3. Change it to: {clean_addr} (remove the period)",
                           <<replace(invalid_value, ".")>>)
                   \o Fixed("4. Click Generate again")
              ELSE IF invalid_value = Empty
              THEN Fixed("A recipient address is empty!")
              ELSE Fixed("Option 1 - Re-import CSV (easiest - auto-cleans addresses):")
                   \o Part("Find and fix the address: {invalid_value}", <<invalid_value>>)
                   \o Fixed("Remove any special characters except - and /"))
        ELSE Fixed("1. Go to Step 2: Filer Information"))

\* the branch of a message that has AddressLine1 in it
AddressBranch(error_msg, xml_lines) ==
    AddressReport(search_value(error_msg, "'").group,
                  AddressWhere(xml_lines, search_line(error_msg)))

\* the branch of a message that has TIN in it
TinBranch == Fixed("PROBLEM: Tax ID Number (TIN) is missing or incorrect")

\* the branch of a message that has PermitNumber in it
PermitBranch(error_msg) ==
    Fixed("PROBLEM: Permit Number is missing or incorrect")
    \o (IF In(<<"W", "i", "n", "e">>, error_msg) THEN Fixed("2. Find 'Wine Permit Number'")
        ELSE IF In(<<"C", "o", "m", "m", "o", "n", "C", "a", "r", "r", "i", "e",
            "r">>, error_msg)
        THEN Fixed("2. Find 'Common Carrier Permit Number'")
        ELSE Fixed("2. Find the permit number field"))
    \o Fixed("3. Enter the 15-digit permit number")

\* date_field of the branch of the dates
DateField(error_msg, xml_lines) ==
    IF In(<<"T", "a", "x", "P", "e", "r", "i", "o", "d", "B", "e", "g", "i", "n", "D", "a", "t",
        "e">>, error_msg)
    THEN <<"T", "A", "X", " ", "P", "E", "R", "I", "O", "D", " ", "B", "E", "G", "I", "N", " ",
        "D", "A", "T", "E", " ", "(", "S", "t", "e", "p", " ", "3", ")">>
    ELSE IF In(<<"T", "a", "x", "P", "e", "r", "i", "o", "d", "E", "n", "d", "D", "a", "t",
        "e">>, error_msg)
    THEN <<"T", "A", "X", " ", "P", "E", "R", "I", "O", "D", " ", "E", "N", "D", " ", "D", "A",
        "T", "E", " ", "(", "S", "t", "e", "p", " ", "3", ")">>
    ELSE IF In(<<"S", "h", "i", "p", "m", "e", "n", "t", "D", "a", "t",
        "e">>, error_msg) \/ InText(<<"<", "S", "h", "i", "p", "m", "e", "n", "t",
        ">">>, xml_lines)
    THEN <<"S", "H", "I", "P", "M", "E", "N", "T", " ", "D", "A", "T", "E", " ", "(", "i", "n",
        " ", "y", "o", "u", "r", " ", "s", "h", "i", "p", "m", "e", "n", "t", " ", "d", "a", "t",
        "a", ")">>
    ELSE <<"U", "n", "k", "n", "o", "w", "n", " ", "d", "a", "t", "e", " ", "f", "i", "e", "l",
        "d">>

DateReport(invalid_date, date_field) ==
    Fixed("PROBLEM: Date could not be understood or is invalid")
    \o (IF invalid_date # Empty THEN Part("INVALID DATE: {invalid_date}", <<invalid_date>>)
        ELSE <<>>)
    \o Part("{date_field}", <<date_field>>)
    \o Fixed("NOTE: The app automatically converts most date formats for you!")
    \o (IF invalid_date # Empty
        THEN IF strip(invalid_date) = Empty
             THEN Fixed("The date is EMPTY - you need to fill it in!")
             ELSE Part("The value {invalid_date} is not a recognizable date.",
                       <<invalid_date>>)
                  \o Fixed("What to do:")
        ELSE <<>>)
    \o Fixed("The app accepts these formats (and auto-converts them):")

\* the branch of a message that has Date or YYYY-MM-DD in it
DateBranch(error_msg, xml_lines) ==
    DateReport(search_value(error_msg, "'").group, DateField(error_msg, xml_lines))

\* the branch of a message that has Email or AckAddress in it
EmailBranch == Fixed("PROBLEM: Email address is missing or invalid")

\* location of the branch of the states
StateLocation(xml_lines) ==
    IF /\ InText(Markers[1], xml_lines)
       /\ find_in_text(xml_lines, Markers[1]) < find_in_text(xml_lines, <<"<", "/", "F", "i",
           "l", "e", "r", ">">>)
    THEN <<"Y", "O", "U", "R", " ", "B", "U", "S", "I", "N", "E", "S", "S", " ", "S", "T", "A",
        "T", "E", " ", "(", "S", "t", "e", "p", " ", "2", ":", " ", "F", "i", "l", "e", "r", " ",
        "I", "n", "f", "o", "r", "m", "a", "t", "i", "o", "n", ")">>
    ELSE IF InText(Markers[2], xml_lines)
    THEN <<"C", "O", "N", "S", "I", "G", "N", "O", "R", " ", "S", "T", "A", "T", "E", " ", "(",
        "S", "t", "e", "p", " ", "4", ":", " ", "D", "e", "f", "a", "u", "l", "t", " ", "C", "o",
        "n", "s", "i", "g", "n", "o", "r", " ", "I", "n", "f", "o", "r", "m", "a", "t", "i", "o",
        "n", ")">>
    ELSE IF InText(Markers[3], xml_lines)
    THEN <<"M", "A", "N", "U", "F", "A", "C", "T", "U", "R", "E", "R", " ", "S", "T", "A", "T",
        "E", " ", "(", "S", "t", "e", "p", " ", "4", ":", " ", "D", "e", "f", "a", "u", "l", "t",
        " ", "M", "a", "n", "u", "f", "a", "c", "t", "u", "r", "e", "r", " ", "I", "n", "f", "o",
        "r", "m", "a", "t", "i", "o", "n", ")">>
    ELSE IF InText(Markers[4], xml_lines)
    THEN <<"R", "E", "C", "I", "P", "I", "E", "N", "T", " ", "S", "T", "A", "T", "E", " ", "(",
        "f", "r", "o", "m", " ", "y", "o", "u", "r", " ", "C", "S", "V", " ", "d", "a", "t", "a",
        " ", "o", "r", " ", "S", "t", "e", "p", " ", "5", " ", "t", "a", "b", "l", "e", ")">>
    ELSE <<"U", "n", "k", "n", "o", "w", "n", " ", "l", "o", "c", "a", "t", "i", "o", "n">>

\* state_map.get(name), Empty for None
state_map(name) ==
    IF name = <<"W", "I", "S", "C", "O", "N", "S", "I", "N">> THEN <<"W", "I">>
    ELSE IF name = <<"I", "L", "L", "I", "N", "O", "I", "S">> THEN <<"I", "L">>
    ELSE IF name = <<"M", "I", "N", "N", "E", "S", "O", "T", "A">> THEN <<"M", "N">>
    ELSE IF name = <<"I", "O", "W", "A">> THEN <<"I", "A">>
    ELSE IF name = <<"M", "I", "C", "H", "I", "G", "A", "N">> THEN <<"M", "I">>
    ELSE IF name = <<"C", "A", "L", "I", "F", "O", "R", "N", "I", "A">> THEN <<"C", "A">>
    ELSE Empty

StateReport(invalid_state, location) ==
    Fixed("PROBLEM: State code is invalid or missing")
    \o (IF invalid_state # Empty
        THEN Part("INVALID STATE CODE: {invalid_state}", <<invalid_state>>)
        ELSE <<>>)
    \o Part("{location}", <<location>>)
    \o Fixed("HOW TO FIX:")
    \o (IF invalid_state # Empty /\ Len(invalid_state) > 2
        THEN Part("Quick Fix: {invalid_state} is spelled out - use just the 2-letter code",
                  <<invalid_state>>)
             \o (IF state_map(Upper(invalid_state)) # Empty
                 THEN Part("Try: {suggestion}", <<state_map(Upper(invalid_state))>>)
                 ELSE Fixed(""))
        ELSE <<>>)
    \o Fixed("Common Wisconsin area states:")

\* the branch of a message that has State in it
StateBranch(error_msg, xml_lines) ==
    StateReport(search_value(error_msg, "'").group, StateLocation(xml_lines))

\* issues of the branch of the cities
CityIssues(invalid_city) ==
    (IF \E i \in DOMAIN invalid_city : IsDigit(invalid_city[i])
     THEN <<<<"C", "o", "n", "t", "a", "i", "n", "s", " ", "n", "u", "m", "b", "e", "r",
         "s">>>> ELSE <<>>)
    \o (IF \E i \in DOMAIN invalid_city : invalid_city[i] \in {".", ",", ";", ":"}
        THEN <<<<"C", "o", "n", "t", "a", "i", "n", "s", " ", "p", "u", "n", "c", "t", "u", "a",
            "t", "i", "o", "n", " ", "(", ".", ",", ";", ":", ")">>>> ELSE <<>>)
    \o (IF \E i \in DOMAIN invalid_city :
              invalid_city[i] \notin UpperChars \cup LowerChars \cup Whitespace
        THEN <<<<"C", "o", "n", "t", "a", "i", "n", "s", " ", "s", "p", "e", "c", "i", "a", "l",
            " ", "c", "h", "a", "r", "a", "c", "t", "e", "r", "s">>>> ELSE <<>>)

\* location of the branch of the cities
CityLocation(error_msg, xml_lines) ==
    IF /\ InText(Markers[1], xml_lines)
       /\ find_in_text(xml_lines, Markers[1])
             < find_in_text(xml_lines, IF In(<<"<", "C", "i", "t", "y",
                 ">">>, error_msg) THEN error_msg
                                       ELSE <<"x", "x", "x", "x", "x">>)
    THEN <<"Y", "O", "U", "R", " ", "B", "U", "S", "I", "N", "E", "S", "S", " ", "C", "I", "T",
        "Y", " ", "(", "S", "t", "e", "p", " ", "2", ":", " ", "F", "i", "l", "e", "r", " ", "I",
        "n", "f", "o", "r", "m", "a", "t", "i", "o", "n", ")">>
    ELSE IF InText(Markers[2], xml_lines)
    THEN <<"C", "O", "N", "S", "I", "G", "N", "O", "R", " ", "C", "I", "T", "Y", " ", "(", "S",
        "t", "e", "p", " ", "4", ":", " ", "D", "e", "f", "a", "u", "l", "t", " ", "C", "o", "n",
        "s", "i", "g", "n", "o", "r", " ", "I", "n", "f", "o", "r", "m", "a", "t", "i", "o", "n",
        ")">>
    ELSE IF InText(Markers[3], xml_lines)
    THEN <<"M", "A", "N", "U", "F", "A", "C", "T", "U", "R", "E", "R", " ", "C", "I", "T", "Y",
        " ", "(", "S", "t", "e", "p", " ", "4", ":", " ", "D", "e", "f", "a", "u", "l", "t", " ",
        "M", "a", "n", "u", "f", "a", "c", "t", "u", "r", "e", "r", " ", "I", "n", "f", "o", "r",
        "m", "a", "t", "i", "o", "n", ")">>
    ELSE IF InText(Markers[4], xml_lines)
    THEN <<"R", "E", "C", "I", "P", "I", "E", "N", "T", " ", "C", "I", "T", "Y", " ", "(", "f",
        "r", "o", "m", " ", "y", "o", "u", "r", " ", "C", "S", "V", " ", "d", "a", "t", "a", " ",
        "o", "r", " ", "S", "t", "e", "p", " ", "5", " ", "t", "a", "b", "l", "e", ")">>
    ELSE <<"U", "n", "k", "n", "o", "w", "n", " ", "l", "o", "c", "a", "t", "i", "o", "n">>

\* suggestion of the branch of the cities
CitySuggestion(invalid_city) ==
    strip(Without(Without(invalid_city, DigitChars), {".", ",", ";", ":"}))

CityReport(invalid_city, location) ==
    Fixed("PROBLEM: City name contains invalid characters")
    \o (IF invalid_city # Empty
        THEN Part("INVALID CITY: {invalid_city}", <<invalid_city>>)
             \o (IF CityIssues(invalid_city) # <<>>
                 THEN Part("Issues found: {issues}", <<join(CityIssues(invalid_city))>>)
                 ELSE <<>>)
        ELSE <<>>)
    \o Part("{location}", <<location>>)
    \o Fixed("HOW TO FIX:")
    \o (IF /\ invalid_city # Empty
           /\ CitySuggestion(invalid_city) # Empty
           /\ CitySuggestion(invalid_city) # invalid_city
        THEN Part("Quick Fix: Change {invalid_city} to {suggestion}",
                  <<invalid_city, CitySuggestion(invalid_city)>>)
        ELSE <<>>)
    \o Fixed("City names can ONLY contain:")

\* the branch of a message that has City in it
CityBranch(error_msg, xml_lines) ==
    CityReport(search_value(error_msg, "'").group, CityLocation(error_msg, xml_lines))

\* the branch of a message that has BusinessNameLine1 in it
BusinessNameBranch == Fixed("PROBLEM: Business name is missing or has invalid characters")

\* invalid_zip as the message gives it, between quotes of one kind or the other
ZipOfMessage(error_msg) ==
    IF search_value(error_msg, "'").matched THEN search_value(error_msg, "'").group
    ELSE search_value(error_msg, "\"").group

\* invalid_zip: the one of the message or, if it gives none, the one on the
\* line of the text that the message speaks of
InvalidZip(from_message, xml_lines, line_number) ==
    IF from_message = Empty /\ line_number # 0 /\ line_number <= Len(xml_lines)
    THEN search_zip(xml_lines[line_number]).group
    ELSE from_message

ZipLocations ==
    <<<<"Y", "O", "U", "R", " ", "B", "U", "S", "I", "N", "E", "S", "S", " ", "Z", "I", "P", " ",
        "(", "S", "t", "e", "p", " ", "2", ":", " ", "F", "i", "l", "e", "r", " ", "I", "n", "f",
        "o", "r", "m", "a", "t", "i", "o", "n", ")">>,
      <<"C", "O", "N", "S", "I", "G", "N", "O", "R", " ", "Z", "I", "P", " ", "(", "S", "t", "e",
          "p", " ", "4", ":", " ", "D", "e", "f", "a", "u", "l", "t", " ", "C", "o", "n", "s",
          "i", "g", "n", "o", "r", " ", "I", "n", "f", "o", "r", "m", "a", "t", "i", "o", "n",
          ")">>,
      <<"M", "A", "N", "U", "F", "A", "C", "T", "U", "R", "E", "R", " ", "Z", "I", "P", " ", "(",
          "S", "t", "e", "p", " ", "4", ":", " ", "D", "e", "f", "a", "u", "l", "t", " ", "M",
          "a", "n", "u", "f", "a", "c", "t", "u", "r", "e", "r", " ", "I", "n", "f", "o", "r",
          "m", "a", "t", "i", "o", "n", ")">>,
      <<"R", "E", "C", "I", "P", "I", "E", "N", "T", " ", "Z", "I", "P", " ", "(", "f", "r", "o",
          "m", " ", "y", "o", "u", "r", " ", "C", "S", "V", " ", "d", "a", "t", "a", " ", "o",
          "r", " ", "S", "t", "e", "p", " ", "5", " ", "t", "a", "b", "l", "e", ")">>>>

\* location of the branch of the ZIP codes
ZipLocation(xml_lines, line_number) ==
    IF NearestMarker(xml_lines, line_number) # 0
    THEN ZipLocations[NearestMarker(xml_lines, line_number)]
    ELSE <<"U", "n", "k", "n", "o", "w", "n", " ", "l", "o", "c", "a", "t", "i", "o", "n">>

\* issues of the branch of the ZIP codes
ZipIssues(invalid_zip) ==
    (IF Len(invalid_zip) < 5
     THEN <<<<"T", "o", "o", " ", "s", "h", "o", "r", "t", " ", "(", "o", "n", "l", "y",
         " ">> \o NaturalText(Len(invalid_zip))
            \o <<" ", "c", "h", "a", "r", "a", "c", "t", "e", "r", "s", ",", " ", "n", "e", "e",
                "d", " ", "5", " ", "o", "r", " ", "9", ")">>>>
     ELSE IF Len(invalid_zip) > 9
     THEN <<<<"T", "o", "o", " ", "l", "o", "n", "g", " ",
         "(">> \o NaturalText(Len(invalid_zip))
            \o <<" ", "c", "h", "a", "r", "a", "c", "t", "e", "r", "s", ",", " ", "m", "a", "x",
                " ", "i", "s", " ", "9", ")">>>>
     ELSE IF 5 < Len(invalid_zip) /\ Len(invalid_zip) < 9
     THEN <<<<"W", "r", "o", "n", "g", " ", "l", "e", "n", "g", "t", "h", " ",
         "(">> \o NaturalText(Len(invalid_zip))
            \o <<" ", "c", "h", "a", "r", "a", "c", "t", "e", "r", "s", ",", " ", "m", "u", "s",
                "t", " ", "b", "e", " ", "e", "x", "a", "c", "t", "l", "y", " ", "5", " ", "o",
                "r", " ", "9", ")">>>>
     ELSE <<>>)
    \o (IF \E i \in DOMAIN invalid_zip : invalid_zip[i] \notin DigitChars \cup UpperChars
        THEN <<<<"C", "o", "n", "t", "a", "i", "n", "s", " ", "i", "n", "v", "a", "l", "i", "d",
            " ", "c", "h", "a", "r", "a", "c", "t", "e", "r", "s", " ", "(", "o", "n", "l", "y",
            " ", "n", "u", "m", "b", "e", "r", "s", " ", "a", "n", "d", " ", "l", "e", "t", "t",
            "e", "r", "s", " ", "a", "l", "l", "o", "w", "e", "d", ")">>>>
        ELSE <<>>)

ZipReport(invalid_zip, location) ==
    Fixed("PROBLEM: ZIP code is invalid")
    \o (IF invalid_zip # Empty
        THEN Part("INVALID ZIP: {invalid_zip}", <<invalid_zip>>)
             \o (IF ZipIssues(invalid_zip) # <<>>
                 THEN Part("Issues found: {issues}", <<join(ZipIssues(invalid_zip))>>)
                 ELSE <<>>)
        ELSE <<>>)
    \o Part("{location}", <<location>>)
    \o Fixed("HOW TO FIX:")

\* the branch of a message that has ZIP or Zip in it
ZipBranch(error_msg, xml_lines) ==
    ZipReport(InvalidZip(ZipOfMessage(error_msg), xml_lines, search_line(error_msg)),
              ZipLocation(xml_lines, search_line(error_msg)))

\* the branch of a message that has Weight in it
WeightBranch == Fixed("PROBLEM: Weight value is missing or invalid")

\* the branch of a message that speaks of a pattern
PatternBranch ==
    Fixed("PROBLEM: A field has invalid characters or is empty when it's required")

\* mutant: a message of no known kind gets no lines of its own
GenericBranch_Nothing(error_msg) == <<>>

\* the branch of every other message
GenericBranch(error_msg) ==
    Part("PROBLEM: {error_msg}", <<error_msg>>)
    \o Fixed("GENERAL TIPS:")

\* mutant: a message that has City in it is taken for one about a city, whatever
\* else it has
Kind_CityFirst(error_msg) ==
    IF In(<<"C", "i", "t", "y">>, error_msg) THEN "City"
    ELSE IF In(<<"A", "d", "d", "r", "e", "s", "s", "L", "i", "n", "e",
        "1">>, error_msg) THEN "AddressLine1"
    ELSE IF In(<<"T", "I", "N">>, error_msg) \/ In(<<"T", "I", "N", "T", "y", "p", "e", "V", "a",
        "l", "u", "e">>, error_msg) THEN "TIN"
    ELSE IF \/ In(<<"P", "e", "r", "m", "i", "t", "N", "u", "m", "b", "e", "r">>, error_msg)
            \/ In(<<"W", "i", "n", "e", "P", "e", "r", "m", "i", "t", "N", "u", "m", "b", "e",
                "r">>, error_msg)
            \/ In(<<"C", "o", "m", "m", "o", "n", "C", "a", "r", "r", "i", "e", "r", "P", "e",
                "r", "m", "i", "t", "N", "u", "m", "b", "e",
                "r">>, error_msg) THEN "PermitNumber"
    ELSE IF In(<<"D", "a", "t", "e">>, error_msg) \/ In(<<"Y", "Y", "Y", "Y", "-", "M", "M", "-",
        "D", "D">>, error_msg) THEN "Date"
    ELSE IF In(<<"E", "m", "a", "i", "l">>, error_msg) \/ In(<<"A", "c", "k", "A", "d", "d", "r",
        "e", "s", "s">>, error_msg) THEN "Email"
    ELSE IF In(<<"S", "t", "a", "t", "e">>, error_msg) THEN "State"
    ELSE IF In(<<"C", "i", "t", "y">>, error_msg) THEN "City"
    ELSE IF In(<<"B", "u", "s", "i", "n", "e", "s", "s", "N", "a", "m", "e", "L", "i", "n", "e",
        "1">>, error_msg) THEN "BusinessNameLine1"
    ELSE IF In(<<"Z", "I", "P">>, error_msg) \/ In(<<"Z", "i", "p">>, error_msg) THEN "ZIP"
    ELSE IF In(<<"W", "e", "i", "g", "h", "t">>, error_msg) \/ In(<<"W", "e", "i", "g", "h", "t",
        "O", "f", "B", "e", "v", "e", "r", "a", "g", "e", "s">>, error_msg)
    THEN "Weight"
    ELSE IF \/ In(<<"p", "a", "t", "t", "e", "r", "n">>, lower(error_msg))
            \/ In(<<"n", "o", "t", " ", "a", "c", "c", "e", "p", "t", "e",
                "d">>, lower(error_msg)) THEN "pattern"
    ELSE "other"


\* the branch the message takes: the first whose words it has
Kind(error_msg) ==
    IF In(<<"A", "d", "d", "r", "e", "s", "s", "L", "i", "n", "e",
        "1">>, error_msg) THEN "AddressLine1"
    ELSE IF In(<<"T", "I", "N">>, error_msg) \/ In(<<"T", "I", "N", "T", "y", "p", "e", "V", "a",
        "l", "u", "e">>, error_msg) THEN "TIN"
    ELSE IF \/ In(<<"P", "e", "r", "m", "i", "t", "N", "u", "m", "b", "e", "r">>, error_msg)
            \/ In(<<"W", "i", "n", "e", "P", "e", "r", "m", "i", "t", "N", "u", "m", "b", "e",
                "r">>, error_msg)
            \/ In(<<"C", "o", "m", "m", "o", "n", "C", "a", "r", "r", "i", "e", "r", "P", "e",
                "r", "m", "i", "t", "N", "u", "m", "b", "e",
                "r">>, error_msg) THEN "PermitNumber"
    ELSE IF In(<<"D", "a", "t", "e">>, error_msg) \/ In(<<"Y", "Y", "Y", "Y", "-", "M", "M", "-",
        "D", "D">>, error_msg) THEN "Date"
    ELSE IF In(<<"E", "m", "a", "i", "l">>, error_msg) \/ In(<<"A", "c", "k", "A", "d", "d", "r",
        "e", "s", "s">>, error_msg) THEN "Email"
    ELSE IF In(<<"S", "t", "a", "t", "e">>, error_msg) THEN "State"
    ELSE IF In(<<"C", "i", "t", "y">>, error_msg) THEN "City"
    ELSE IF In(<<"B", "u", "s", "i", "n", "e", "s", "s", "N", "a", "m", "e", "L", "i", "n", "e",
        "1">>, error_msg) THEN "BusinessNameLine1"
    ELSE IF In(<<"Z", "I", "P">>, error_msg) \/ In(<<"Z", "i", "p">>, error_msg) THEN "ZIP"
    ELSE IF In(<<"W", "e", "i", "g", "h", "t">>, error_msg) \/ In(<<"W", "e", "i", "g", "h", "t",
        "O", "f", "B", "e", "v", "e", "r", "a", "g", "e", "s">>, error_msg)
    THEN "Weight"
    ELSE IF \/ In(<<"p", "a", "t", "t", "e", "r", "n">>, lower(error_msg))
            \/ In(<<"n", "o", "t", " ", "a", "c", "c", "e", "p", "t", "e",
                "d">>, lower(error_msg)) THEN "pattern"
    ELSE "other"

Branch(kind, error_msg, xml_lines) ==
    CASE kind = "AddressLine1" -> AddressBranch(error_msg, xml_lines)
      [] kind = "TIN" -> TinBranch
      [] kind = "PermitNumber" -> PermitBranch(error_msg)
      [] kind = "Date" -> DateBranch(error_msg, xml_lines)
      [] kind = "Email" -> EmailBranch
      [] kind = "State" -> StateBranch(error_msg, xml_lines)
      [] kind = "City" -> CityBranch(error_msg, xml_lines)
      [] kind = "BusinessNameLine1" -> BusinessNameBranch
      [] kind = "ZIP" -> ZipBranch(error_msg, xml_lines)
      [] kind = "Weight" -> WeightBranch
      [] kind = "pattern" -> PatternBranch
      [] OTHER -> GenericBranch(error_msg)

\* XMLGenerator._enhance_validation_error
enhance_validation_error(error_msg, xml_lines) ==
    Header \o Branch(Kind(error_msg), error_msg, xml_lines) \o Footer

\* what lxml does with the text: the schema accepts it, the schema rejects it
\* (DocumentInvalid, with its message), or the text cannot be parsed or
\* anything else fails (with the message of that exception)
\* line is the line the validator reports, 0 if it reports none
Accepted == [kind |-> "valid", message |-> Empty, line |-> 0]
DocumentInvalid(message, n) == [kind |-> "DocumentInvalid", message |-> message, line |-> n]
OtherException(message) == [kind |-> "Exception", message |-> message, line |-> 0]

\* what validate_xml gives: is_valid and the error message (Empty for None),
\* or an exception that leaves it
Returned(is_valid, error) == [raised |-> FALSE, is_valid |-> is_valid, error |-> error]
Propagated == [raised |-> TRUE, is_valid |-> FALSE, error |-> Empty]

\* mutant: only DocumentInvalid is caught
validate_xml_NoCatchAll(xml_lines, outcome) ==
    IF outcome.kind = "valid" THEN Returned(TRUE, Empty)
    ELSE IF outcome.kind = "DocumentInvalid"
    THEN Returned(FALSE, enhance_validation_error(outcome.message, xml_lines))
    ELSE Propagated

\* XMLGenerator.validate_xml, lxml doing with the text what outcome says
validate_xml(xml_lines, outcome) ==
    IF outcome.kind = "valid" THEN Returned(TRUE, Empty)
    ELSE IF outcome.kind = "DocumentInvalid"
    THEN Returned(FALSE, enhance_validation_error(outcome.message, xml_lines))
    ELSE Returned(FALSE, Part("Validation error: {e}", <<outcome.message>>))

-----------------------------------------------------------------------------
(* The calls made on an XMLGenerator: the filers, the shipments and the texts
   they are given *)

BareFiler ==
    ("tin_value" :> <<"1", "2", "3", "4", "5", "6", "7", "8", "9">>) @@
    ("business_name_line1" :> <<"A", "&", "B">>) @@
    ("address_line1" :> <<"1", " ", "E", "l", "m">>) @@
    ("city" :> <<"E", "a", "u">>) @@
    ("state" :> <<"W", "I">>) @@
    ("zip" :> <<"5", "3", "7", "0", "3">>)

FullFiler ==
    ("tin_type" :> <<"S", "S", "N">>) @@
    ("tin_value" :> <<"1", "2", "3", "4", "5", "6", "7", "8", "9">>) @@
    ("state_ein" :> <<"0", "3", "6", "-", "1">>) @@
    ("business_name_line1" :> <<"A", "c", "m", "e">>) @@
    ("business_name_line2" :> <<"W", "i", "n", "e", "s">>) @@
    ("address_line1" :> <<"N", ".", " ", "M", "a", "i", "n", " ", "S", "t", ".">>) @@
    ("address_line2" :> <<"A", "p", "t", " ", "2">>) @@
    ("city" :> <<"E", "a", "u">>) @@
    ("state" :> <<"W", "I">>) @@
    ("zip" :> <<"5", "3", "7", "0", "3">>)

\* a filer whose second name line was entered on five lines
FiveLineFiler ==
    ("business_name_line2" :> <<"W", LineFeed, "i", LineFeed, "n", LineFeed, "e", LineFeed, "s">>) @@ FullFiler

EmptyTinFiler ==
    ("tin_value" :> Empty) @@
    ("business_name_line1" :> <<"A", "&", "B">>) @@
    ("address_line1" :> <<"1", " ", "E", "l", "m">>) @@
    ("city" :> <<"E", "a", "u">>) @@
    ("state" :> <<"W", "I">>) @@
    ("zip" :> <<"5", "3", "7", "0", "3">>) @@
    ("state_ein" :> Empty)

NoCityFiler ==
    ("tin_value" :> <<"1", "2", "3", "4", "5", "6", "7", "8", "9">>) @@
    ("business_name_line1" :> <<"A", "&", "B">>) @@
    ("address_line1" :> <<"1", " ", "E", "l", "m">>) @@
    ("state" :> <<"W", "I">>) @@
    ("zip" :> <<"5", "3", "7", "0", "3">>)

CcPlain ==
    ("consignor_name" :> <<"Z", "e", "d">>) @@
    ("consignor_address_line1" :> <<"1", " ", "E", "l", "m">>) @@
    ("consignor_address_line2" :> Empty) @@
    ("consignor_city" :> <<"E", "a", "u">>) @@
    ("consignor_state" :> <<"W", "I">>) @@
    ("consignor_zip" :> <<"5", "3", "7", "0", "3">>) @@
    ("permit_number" :> Empty) @@
    ("consignee_name" :> <<"A", "l">>) @@
    ("consignee_address_line1" :> <<"2", " ", "O", "a", "k">>) @@
    ("consignee_city" :> <<"E", "a", "u">>) @@
    ("consignee_state" :> <<"W", "I">>) @@
    ("consignee_zip" :> <<"5", "4", "7", "0", "1">>) @@
    ("shipment_date" :> <<"2", "0", "2", "5", "-", "1", "0", "-", "2", "9">>) @@
    ("weight_of_beverages" :> Float(FALSE, 10, 0))

CcFull ==
    ("consignor_name" :> <<"Z", "e", "d">>) @@
    ("consignor_address_line1" :> <<"S", "t", ".", " ", "P", "a", "u", "l", " ", "S", "t", ".">>) @@
    ("consignor_address_line2" :> <<"B">>) @@
    ("consignor_city" :> <<"E", "a", "u">>) @@
    ("consignor_state" :> <<"W", "I">>) @@
    ("consignor_zip" :> <<"5", "3", "7", "0", "3">>) @@
    ("permit_number" :> <<"0", "0", "0", "0", "0", "0", "0", "0", "0", "0", "0", "0", "1", "2", "3">>) @@
    ("consignee_name" :> <<"B", "o", "b">>) @@
    ("consignee_address_line1" :> <<"N", ".", " ", "M", "a", "i", "n", " ", "S", "t", ".">>) @@
    ("consignee_city" :> <<"E", "a", "u">>) @@
    ("consignee_state" :> <<"W", "I">>) @@
    ("consignee_zip" :> <<"5", "4", "7", "0", "1">>) @@
    ("shipment_date" :> <<"2", "0", "2", "5", "-", "1", "0", "-", "2", "9">>) @@
    ("weight_of_beverages" :> Float(FALSE, 105, 1)) @@
    ("consignee_address_line2" :> <<"A", "p", "t", " ", "1">>) @@
    ("beverage_type" :> <<"W", "i", "n", "e">>) @@
    ("tracking_number" :> <<"T", "1">>) @@
    ("bill_of_lading_number" :> <<"B", "L", "1">>)

CcNoZip ==
    ("consignor_name" :> <<"Z", "e", "d">>) @@
    ("consignor_address_line1" :> <<"1", " ", "E", "l", "m">>) @@
    ("consignor_address_line2" :> Empty) @@
    ("consignor_city" :> <<"E", "a", "u">>) @@
    ("consignor_state" :> <<"W", "I">>) @@
    ("consignor_zip" :> <<"5", "3", "7", "0", "3">>) @@
    ("permit_number" :> Empty) @@
    ("consignee_name" :> <<"A", "l">>) @@
    ("consignee_address_line1" :> <<"2", " ", "O", "a", "k">>) @@
    ("consignee_city" :> <<"E", "a", "u">>) @@
    ("consignee_state" :> <<"W", "I">>) @@
    ("shipment_date" :> <<"2", "0", "2", "5", "-", "1", "0", "-", "2", "9">>) @@
    ("weight_of_beverages" :> Float(FALSE, 10, 0))

CcEmptyName ==
    ("consignor_name" :> <<"Z", "e", "d">>) @@
    ("consignor_address_line1" :> <<"1", " ", "E", "l", "m">>) @@
    ("consignor_address_line2" :> Empty) @@
    ("consignor_city" :> <<"E", "a", "u">>) @@
    ("consignor_state" :> <<"W", "I">>) @@
    ("consignor_zip" :> <<"5", "3", "7", "0", "3">>) @@
    ("permit_number" :> Empty) @@
    ("consignee_name" :> Empty) @@
    ("consignee_address_line1" :> <<"2", " ", "O", "a", "k">>) @@
    ("consignee_city" :> <<"E", "a", "u">>) @@
    ("consignee_state" :> <<"W", "I">>) @@
    ("consignee_zip" :> <<"5", "4", "7", "0", "1">>) @@
    ("shipment_date" :> <<"2", "0", "2", "5", "-", "1", "0", "-", "2", "9">>) @@
    ("weight_of_beverages" :> Empty)

FhPlain ==
    ("manufacturer_name" :> <<"V", "i", "n">>) @@
    ("manufacturer_address_line1" :> <<"2", " ", "O", "a", "k">>) @@
    ("manufacturer_address_line2" :> Empty) @@
    ("manufacturer_city" :> <<"E", "a", "u">>) @@
    ("manufacturer_state" :> <<"W", "I">>) @@
    ("manufacturer_zip" :> <<"5", "4", "7", "0", "1">>) @@
    ("wine_permit_number" :> <<"0", "0", "0", "0", "0", "0", "0", "0", "0", "0", "0", "0", "7", "7", "7">>) @@
    ("common_carrier_permit_number" :> <<"0", "0", "0", "0", "0", "0", "0", "0", "0", "0", "0", "0", "8", "8", "8">>) @@
    ("consignee_name" :> <<"A", "l">>) @@
    ("consignee_address_line1" :> <<"O", "'", "H", "a", "r", "e", " ", "R", "d", ".">>) @@
    ("consignee_address_line2" :> Empty) @@
    ("consignee_city" :> <<"E", "a", "u">>) @@
    ("consignee_state" :> <<"W", "I">>) @@
    ("consignee_zip" :> <<"5", "3", "7", "0", "3">>) @@
    ("shipment_date" :> <<"2", "0", "2", "5", "-", "1", "0", "-", "2", "9">>) @@
    ("tracking_number" :> Empty) @@
    ("quantity_of_wine" :> Float(FALSE, 9, 0)) @@
    ("different_consignor_name" :> Empty)

FhFull ==
    ("manufacturer_name" :> <<"V", "i", "n">>) @@
    ("manufacturer_address_line1" :> <<"N", ".", " ", "M", "a", "i", "n", " ", "S", "t", ".">>) @@
    ("manufacturer_address_line2" :> <<"B">>) @@
    ("manufacturer_city" :> <<"E", "a", "u">>) @@
    ("manufacturer_state" :> <<"W", "I">>) @@
    ("manufacturer_zip" :> <<"5", "4", "7", "0", "1">>) @@
    ("wine_permit_number" :> <<"0", "0", "0", "0", "0", "0", "0", "0", "0", "0", "0", "0", "7", "7", "7">>) @@
    ("common_carrier_permit_number" :> <<"0", "0", "0", "0", "0", "0", "0", "0", "0", "0", "0", "0", "8", "8", "8">>) @@
    ("consignee_name" :> <<"A", "l">>) @@
    ("consignee_address_line1" :> <<"2", " ", "O", "a", "k">>) @@
    ("consignee_address_line2" :> Empty) @@
    ("consignee_city" :> <<"E", "a", "u">>) @@
    ("consignee_state" :> <<"W", "I">>) @@
    ("consignee_zip" :> <<"5", "3", "7", "0", "3">>) @@
    ("shipment_date" :> <<"2", "0", "2", "5", "-", "1", "0", "-", "2", "9">>) @@
    ("tracking_number" :> <<"T", "2">>) @@
    ("quantity_of_wine" :> Float(FALSE, 22, 1)) @@
    ("different_consignor_name" :> <<"D", "e", "e">>) @@
    ("different_consignor_address_line1" :> <<"3", " ", "A", "s", "h", " ", "A", "v", "e", ".">>) @@
    ("different_consignor_address_line2" :> <<"A", "p", "t", " ", "1">>) @@
    ("different_consignor_city" :> <<"E", "a", "u">>) @@
    ("different_consignor_state" :> <<"W", "I">>) @@
    ("different_consignor_zip" :> <<"5", "3", "7", "0", "3">>)

FhLine2Only ==
    ("manufacturer_name" :> <<"V", "i", "n">>) @@
    ("manufacturer_address_line1" :> <<"2", " ", "O", "a", "k">>) @@
    ("manufacturer_address_line2" :> Empty) @@
    ("manufacturer_city" :> <<"E", "a", "u">>) @@
    ("manufacturer_state" :> <<"W", "I">>) @@
    ("manufacturer_zip" :> <<"5", "4", "7", "0", "1">>) @@
    ("wine_permit_number" :> <<"0", "0", "0", "0", "0", "0", "0", "0", "0", "0", "0", "0", "7", "7", "7">>) @@
    ("common_carrier_permit_number" :> <<"0", "0", "0", "0", "0", "0", "0", "0", "0", "0", "0", "0", "8", "8", "8">>) @@
    ("consignee_name" :> <<"A", "l">>) @@
    ("consignee_address_line1" :> <<"O", "'", "H", "a", "r", "e", " ", "R", "d", ".">>) @@
    ("consignee_address_line2" :> Empty) @@
    ("consignee_city" :> <<"E", "a", "u">>) @@
    ("consignee_state" :> <<"W", "I">>) @@
    ("consignee_zip" :> <<"5", "3", "7", "0", "3">>) @@
    ("shipment_date" :> <<"2", "0", "2", "5", "-", "1", "0", "-", "2", "9">>) @@
    ("tracking_number" :> Empty) @@
    ("quantity_of_wine" :> Float(FALSE, 9, 0)) @@
    ("different_consignor_name" :> Empty) @@
    ("different_consignor_address_line2" :> <<"A", "p", "t", " ", "1">>)

FhNoPermit ==
    ("manufacturer_name" :> <<"V", "i", "n">>) @@
    ("manufacturer_address_line1" :> <<"2", " ", "O", "a", "k">>) @@
    ("manufacturer_address_line2" :> Empty) @@
    ("manufacturer_city" :> <<"E", "a", "u">>) @@
    ("manufacturer_state" :> <<"W", "I">>) @@
    ("manufacturer_zip" :> <<"5", "4", "7", "0", "1">>) @@
    ("common_carrier_permit_number" :> <<"0", "0", "0", "0", "0", "0", "0", "0", "0", "0", "0", "0", "8", "8", "8">>) @@
    ("consignee_name" :> <<"A", "l">>) @@
    ("consignee_address_line1" :> <<"O", "'", "H", "a", "r", "e", " ", "R", "d", ".">>) @@
    ("consignee_address_line2" :> Empty) @@
    ("consignee_city" :> <<"E", "a", "u">>) @@
    ("consignee_state" :> <<"W", "I">>) @@
    ("consignee_zip" :> <<"5", "3", "7", "0", "3">>) @@
    ("shipment_date" :> <<"2", "0", "2", "5", "-", "1", "0", "-", "2", "9">>) @@
    ("tracking_number" :> Empty) @@
    ("quantity_of_wine" :> Float(FALSE, 9, 0)) @@
    ("different_consignor_name" :> Empty)

FhHalfConsignor ==
    ("manufacturer_name" :> <<"V", "i", "n">>) @@
    ("manufacturer_address_line1" :> <<"2", " ", "O", "a", "k">>) @@
    ("manufacturer_address_line2" :> Empty) @@
    ("manufacturer_city" :> <<"E", "a", "u">>) @@
    ("manufacturer_state" :> <<"W", "I">>) @@
    ("manufacturer_zip" :> <<"5", "4", "7", "0", "1">>) @@
    ("wine_permit_number" :> <<"0", "0", "0", "0", "0", "0", "0", "0", "0", "0", "0", "0", "7", "7", "7">>) @@
    ("common_carrier_permit_number" :> <<"0", "0", "0", "0", "0", "0", "0", "0", "0", "0", "0", "0", "8", "8", "8">>) @@
    ("consignee_name" :> <<"A", "l">>) @@
    ("consignee_address_line1" :> <<"O", "'", "H", "a", "r", "e", " ", "R", "d", ".">>) @@
    ("consignee_address_line2" :> Empty) @@
    ("consignee_city" :> <<"E", "a", "u">>) @@
    ("consignee_state" :> <<"W", "I">>) @@
    ("consignee_zip" :> <<"5", "3", "7", "0", "3">>) @@
    ("shipment_date" :> <<"2", "0", "2", "5", "-", "1", "0", "-", "2", "9">>) @@
    ("tracking_number" :> Empty) @@
    ("quantity_of_wine" :> Float(FALSE, 9, 0)) @@
    ("different_consignor_name" :> <<"D", "e", "e">>) @@
    ("different_consignor_address_line1" :> <<"3", " ", "A", "s", "h">>)

\* one call of generate_xml: the report type of the generator and the arguments
AssemblerInput(report_type, filer_data, list, amended) ==
    [report_type |-> report_type, filer_data |-> filer_data, shipments |-> list,
     tax_period_begin |-> <<"2", "0", "2", "5", "-", "1", "0", "-", "0", "1">>, tax_period_end |-> <<"2", "0", "2", "5", "-", "1", "0", "-", "3", "1">>,
     ack_email |-> <<"a", "@", "b", ".", "c">>, amended |-> amended]

AssemblerInputs ==
    { AssemblerInput("CommonCarrier", FullFiler, <<CcFull, CcPlain>>, TRUE),
      AssemblerInput("CommonCarrier", BareFiler, <<CcPlain>>, FALSE),
      AssemblerInput("CommonCarrier", BareFiler, <<CcPlain, CcFull>>, FALSE),
      AssemblerInput("CommonCarrier", FullFiler, <<CcFull>>, FALSE),
      AssemblerInput("CommonCarrier", EmptyTinFiler, <<CcPlain>>, FALSE),
      AssemblerInput("CommonCarrier", NoCityFiler, <<CcFull>>, TRUE),
      AssemblerInput("CommonCarrier", BareFiler, <<CcPlain, CcNoZip>>, FALSE),
      AssemblerInput("CommonCarrier", BareFiler, <<CcEmptyName>>, FALSE),
      AssemblerInput("CommonCarrier", BareFiler, <<>>, TRUE),
      AssemblerInput("CommonCarrier", FiveLineFiler, <<>>, FALSE),
      AssemblerInput("CommonCarrier", BareFiler, <<FhPlain>>, FALSE),
      AssemblerInput("FulfillmentHouse", FullFiler, <<FhFull, FhPlain>>, TRUE),
      AssemblerInput("FulfillmentHouse", BareFiler, <<FhPlain>>, FALSE),
      AssemblerInput("FulfillmentHouse", FullFiler, <<FhFull>>, FALSE),
      AssemblerInput("FulfillmentHouse", BareFiler, <<FhLine2Only>>, FALSE),
      AssemblerInput("FulfillmentHouse", BareFiler, <<FhPlain, FhNoPermit>>, FALSE),
      AssemblerInput("FulfillmentHouse", BareFiler, <<FhHalfConsignor>>, FALSE),
      AssemblerInput("FulfillmentHouse", EmptyTinFiler, <<FhFull>>, TRUE),
      AssemblerInput("FulfillmentHouse", BareFiler, <<CcPlain>>, FALSE) }

-----------------------------------------------------------------------------
(* The calls made on the Validation Translator: what lxml may say of a
   generated document, and the messages and texts of calls of their own *)

\* str(e) of an error that lxml reports on a line: the text, then the line
OnLine(text, n) == DocumentInvalid(text \o <<",", " ", "l", "i", "n", "e",
    " ">> \o NaturalText(n), n)

\* the number of lines an element is written on, and the leaves of an
\* element that begins on line n, each with the line it is written on
RECURSIVE Height(_), HeightOfAll(_, _), Leaves(_, _), LeavesOfAll(_, _, _)
Height(element) ==
    IF element.children = <<>> THEN Len(SplitLines(element.text))
    ELSE 2 + HeightOfAll(element.children, 1)
HeightOfAll(children, i) ==
    IF i > Len(children) THEN 0 ELSE Height(children[i]) + HeightOfAll(children, i + 1)
Leaves(element, n) ==
    IF element.children = <<>>
    THEN {[tag |-> element.tag, text |-> element.text, line |-> n]}
    ELSE LeavesOfAll(element.children, 1, n + 1)
LeavesOfAll(children, i, n) ==
    IF i > Len(children) THEN {}
    ELSE Leaves(children[i], n) \cup LeavesOfAll(children, i + 1, n + Height(children[i]))

\* the message of lxml on a leaf whose text the schema does not accept; the
\* schemas are not in the repository, so every leaf may be the one, and the
\* pattern is written as \S+
Rejection(leaf) ==
    IF leaf.text = Empty
    THEN OnLine(<<"E", "l", "e", "m", "e", "n", "t", " ", "'">> \o TagName[leaf.tag]
                \o <<"'", ":", " ", "[", "f", "a", "c", "e", "t", " ", "'", "m", "i", "n", "L",
                    "e", "n", "g", "t", "h", "'", "]", " ", "T", "h", "e", " ", "v", "a", "l",
                    "u", "e", " ", "'", "'", " ", "h", "a", "s", " ", "a", " ", "l", "e", "n",
                    "g", "t", "h", " ", "o", "f", " ", "'", "0", "'", ";", " ", "t", "h", "i",
                    "s", " ", "u", "n", "d", "e", "r", "r", "u", "n", "s", " ", "t", "h", "e",
                    " ", "a", "l", "l", "o", "w", "e", "d", " ", "m", "i", "n", "i", "m", "u",
                    "m", " ", "l", "e", "n", "g", "t", "h", " ", "o", "f", " ", "'", "1", "'",
                    ".">>,
                leaf.line)
    ELSE OnLine(<<"E", "l", "e", "m", "e", "n", "t", " ", "'">> \o TagName[leaf.tag]
                \o <<"'", ":", " ", "[", "f", "a", "c", "e", "t", " ", "'", "p", "a", "t", "t",
                    "e", "r", "n", "'", "]", " ", "T", "h", "e", " ", "v", "a", "l", "u", "e",
                    " ", "'">> \o leaf.text
                \o <<"'", " ", "i", "s", " ", "n", "o", "t", " ", "a", "c", "c", "e", "p", "t",
                    "e", "d", " ", "b", "y", " ", "t", "h", "e", " ", "p", "a", "t", "t", "e",
                    "r", "n", " ", "'", "\\", "S", "+", "'", ".">>,
                leaf.line)

\* what lxml may do with a generated document, the root written from line 2
OutcomesOf(root) == {Accepted} \cup {Rejection(leaf) : leaf \in Leaves(root, 2)}

\* texts that are no XML, and what lxml does with them
NotXml == {<<Empty>>, <<<<"a", "b", "c">>, Empty>>}
SyntaxErrors ==
    {OtherException(<<"D", "o", "c", "u", "m", "e", "n", "t", " ", "i", "s", " ", "e", "m", "p",
        "t", "y", ",", " ", "l", "i", "n", "e", " ", "1", ",", " ", "c", "o", "l", "u", "m", "n",
        " ", "1", " ", "(", "<", "s", "t", "r", "i", "n", "g", ">", ",", " ", "l", "i", "n", "e",
        " ", "1", ")">>),
     OtherException(<<"S", "t", "a", "r", "t", " ", "t", "a", "g", " ", "e", "x", "p", "e", "c",
         "t", "e", "d", ",", " ", "'", "<", "'", " ", "n", "o", "t", " ", "f", "o", "u", "n",
         "d", ",", " ", "l", "i", "n", "e", " ", "1", ",", " ", "c", "o", "l", "u", "m", "n",
         " ", "1", " ", "(", "<", "s", "t", "r", "i", "n", "g", ">", ",", " ", "l", "i", "n",
         "e", " ", "1", ")">>)}

\* a text of three address blocks, each marker on a line of its own
ThreeBlocks ==
    <<<<"<", "R", ">">>,
      <<" ", " ", "<", "F", "i", "l", "e", "r", ">">>,
      <<" ", " ", " ", " ", "<", "A", "d", "d", "r", "e", "s", "s", "L", "i", "n", "e", "1", ">",
          "N", ".", " ", "M", "a", "i", "n", " ", "S", "t", ".", "<", "/", "A", "d", "d", "r",
          "e", "s", "s", "L", "i", "n", "e", "1", ">">>,
      <<" ", " ", " ", " ", "<", "Z", "I", "P", ">", "5", "3", "7", "0", "<", "/", "Z", "I", "P",
          ">">>,
      <<" ", " ", "<", "/", "F", "i", "l", "e", "r", ">">>,
      <<" ", " ", "<", "C", "o", "n", "s", "i", "g", "n", "o", "r", "A", "d", "d", "r", "e", "s",
          "s", ">">>,
      <<" ", " ", " ", " ", "<", "A", "d", "d", "r", "e", "s", "s", "L", "i", "n", "e", "1", ">",
          "S", "t", ".", " ", "P", "a", "u", "l", " ", "S", "t", ".", "<", "/", "A", "d", "d",
          "r", "e", "s", "s", "L", "i", "n", "e", "1", ">">>,
      <<" ", " ", " ", " ", "<", "Z", "I", "P", ">", "5", "3", "7", "0", "3", "-", "1", "2", "<",
          "/", "Z", "I", "P", ">">>,
      <<" ", " ", "<", "/", "C", "o", "n", "s", "i", "g", "n", "o", "r", "A", "d", "d", "r", "e",
          "s", "s", ">">>,
      <<" ", " ", "<", "C", "o", "n", "s", "i", "g", "n", "e", "e", "A", "d", "d", "r", "e", "s",
          "s", ">">>,
      <<" ", " ", " ", " ", "<", "A", "d", "d", "r", "e", "s", "s", "L", "i", "n", "e", "1", ">",
          "N", ".", " ", "M", "a", "i", "n", " ", "S", "t", ".", "<", "/", "A", "d", "d", "r",
          "e", "s", "s", "L", "i", "n", "e", "1", ">">>,
      <<" ", " ", " ", " ", "<", "C", "i", "t", "y", ">", "E", "a", "u", " ", "C", "l", "a", "i",
          "r", "e", " ", "2", ".", "<", "/", "C", "i", "t", "y", ">">>,
      <<" ", " ", " ", " ", "<", "Z", "I", "P", ">", "x", "<", "/", "Z", "I", "P", ">">>,
      <<" ", " ", "<", "/", "C", "o", "n", "s", "i", "g", "n", "e", "e", "A", "d", "d", "r", "e",
          "s", "s", ">">>,
      <<"<", "/", "R", ">">>,
      Empty>>

\* a text whose only address is the one of a manufacturer
ManufacturerOnly ==
    <<<<"<", "R", ">">>,
      <<"<", "S", "h", "i", "p", "m", "e", "n", "t", ">">>,
      <<"<", "M", "a", "n", "u", "f", "a", "c", "t", "u", "r", "e", "r", "A", "d", "d", "r", "e",
          "s", "s", ">">>,
      <<"<", "A", "d", "d", "r", "e", "s", "s", "L", "i", "n", "e", "1", ">", "<", "/", "A", "d",
          "d", "r", "e", "s", "s", "L", "i", "n", "e", "1", ">">>,
      <<"<", "/", "M", "a", "n", "u", "f", "a", "c", "t", "u", "r", "e", "r", "A", "d", "d", "r",
          "e", "s", "s", ">">>,
      <<"<", "/", "S", "h", "i", "p", "m", "e", "n", "t", ">">>,
      <<"<", "/", "R", ">">>>>

\* a text on one line, and a text without any marker
OneLine ==
    <<<<"<", "R", ">", "<", "C", "o", "n", "s", "i", "g", "n", "e", "e", "A", "d", "d", "r", "e",
        "s", "s", ">", "<", "A", "d", "d", "r", "e", "s", "s", "L", "i", "n", "e", "1", ">", "N",
        ".", " ", "M", "a", "i", "n", " ", "S", "t", ".", "<", "/", "A", "d", "d", "r", "e", "s",
        "s", "L", "i", "n", "e", "1", ">", "<", "Z", "I", "P", ">", "1", "<", "/", "Z", "I", "P",
        ">", "<", "/", "C", "o", "n", "s", "i", "g", "n", "e", "e", "A", "d", "d", "r", "e", "s",
        "s", ">", "<", "F", "i", "l", "e", "r", "/", ">", "<", "/", "R", ">">>>>
NoMarker == <<<<"<", "R", ">">>, <<"<", "Z", "I", "P", ">", "1", "2", "3", "4", "5", "6", "<",
    "/", "Z", "I", "P", ">">>, <<"<", "/", "R", ">">>>>

\* the number of lines between the filer and its address in FarApart
Filling == 22

\* a text whose filer address is far below the opening tag of the filer, an
\* address of a consignee coming after it
FarApart ==
    <<<<"<", "R", ">">>, <<"<", "F", "i", "l", "e", "r", ">">>>>
    \o [i \in 1..Filling |-> <<"<", "N", "o", "t", "e", ">", "x", "<", "/", "N", "o", "t", "e",
        ">">>]
    \o <<<<"<", "A", "d", "d", "r", "e", "s", "s", "L", "i", "n", "e", "1", ">", "N", ".", " ",
        "M", "a", "i", "n", " ", "S", "t", ".", "<", "/", "A", "d", "d", "r", "e", "s", "s", "L",
        "i", "n", "e", "1", ">">>,
         <<"<", "/", "F", "i", "l", "e", "r", ">">>,
         <<"<", "C", "o", "n", "s", "i", "g", "n", "e", "e", "A", "d", "d", "r", "e", "s", "s",
             ">">>,
         <<"<", "A", "d", "d", "r", "e", "s", "s", "L", "i", "n", "e", "1", ">", "1", " ", "E",
             "l", "m", "<", "/", "A", "d", "d", "r", "e", "s", "s", "L", "i", "n", "e", "1",
             ">">>,
         <<"<", "/", "C", "o", "n", "s", "i", "g", "n", "e", "e", "A", "d", "d", "r", "e", "s",
             "s", ">">>,
         <<"<", "/", "R", ">">>>>

SampleTexts == {ThreeBlocks, ManufacturerOnly, OneLine, NoMarker, FarApart}

\* the lines of a text that the sample messages speak of
SampleLines == {1, 3, 4, 7, 11, 13, Filling + 3, 99}

AddressRejected(value) ==
    <<"E", "l", "e", "m", "e", "n", "t", " ", "'", "A", "d", "d", "r", "e", "s", "s", "L", "i",
        "n", "e", "1", "'", ":", " ", "[", "f", "a", "c", "e", "t", " ", "'", "p", "a", "t", "t",
        "e", "r", "n", "'", "]", " ", "T", "h", "e", " ", "v", "a", "l", "u", "e", " ",
        "'">> \o value
    \o <<"'", " ", "i", "s", " ", "n", "o", "t", " ", "a", "c", "c", "e", "p", "t", "e", "d",
        " ", "b", "y", " ", "t", "h", "e", " ", "p", "a", "t", "t", "e", "r", "n", " ", "'",
        "\\", "S", "+", "'", ".">>

\* messages with the line they are reported on
LocatedMessages ==
    {AddressRejected(<<"N", ".", " ", "M", "a", "i", "n", " ", "S", "t", ".">>),
     AddressRejected(<<"1", " ", "E", "l", "m">>),
     AddressRejected(Empty),
     AddressRejected(<<"P", "i", "p", "e", "l", "i", "n", "e", " ", "3", " ", "R", "d", ".">>),
     <<"E", "l", "e", "m", "e", "n", "t", " ", "'", "Z", "I", "P", "'", ":", " ", "[", "f", "a",
         "c", "e", "t", " ", "'", "p", "a", "t", "t", "e", "r", "n", "'", "]", " ", "T", "h",
         "e", " ", "v", "a", "l", "u", "e", " ", "'", "5", "3", "7", "0", "'", " ", "i", "s",
         " ", "n", "o", "t", " ", "a", "c", "c", "e", "p", "t", "e", "d", " ", "b", "y", " ",
         "t", "h", "e", " ", "p", "a", "t", "t", "e", "r", "n", " ", "'", "\\", "S", "+", "'",
         ".">>,
     <<"E", "l", "e", "m", "e", "n", "t", " ", "'", "Z", "I", "P", "'", ":", " ", "T", "h", "i",
         "s", " ", "e", "l", "e", "m", "e", "n", "t", " ", "i", "s", " ", "n", "o", "t", " ",
         "e", "x", "p", "e", "c", "t", "e", "d", ".">>}

\* messages without a line
UnlocatedMessages ==
    {AddressRejected(<<"N", ".", " ", "M", "a", "i", "n", " ", "S", "t", ".">>),
     <<"E", "l", "e", "m", "e", "n", "t", " ", "'", "Z", "I", "P", "'", ":", " ", "T", "h", "e",
         " ", "v", "a", "l", "u", "e", " ", "\"", "5", "3", "7", "0", "3", "-", "1", "2", "3",
         "4", "\"", " ", "i", "s", " ", "n", "o", "t", " ", "v", "a", "l", "i", "d">>,
     <<"E", "l", "e", "m", "e", "n", "t", " ", "'", "T", "I", "N", "T", "y", "p", "e", "V", "a",
         "l", "u", "e", "'", ":", " ", "[", "f", "a", "c", "e", "t", " ", "'", "p", "a", "t",
         "t", "e", "r", "n", "'", "]", " ", "T", "h", "e", " ", "v", "a", "l", "u", "e", " ",
         "'", "1", "2", "'", " ", "i", "s", " ", "n", "o", "t", " ", "a", "c", "c", "e", "p",
         "t", "e", "d", " ", "b", "y", " ", "t", "h", "e", " ", "p", "a", "t", "t", "e", "r",
         "n", " ", "'", "\\", "S", "+", "'", ".">>,
     <<"E", "l", "e", "m", "e", "n", "t", " ", "'", "W", "i", "n", "e", "P", "e", "r", "m", "i",
         "t", "N", "u", "m", "b", "e", "r", "'", ":", " ", "[", "f", "a", "c", "e", "t", " ",
         "'", "p", "a", "t", "t", "e", "r", "n", "'", "]", " ", "T", "h", "e", " ", "v", "a",
         "l", "u", "e", " ", "'", "1", "'", " ", "i", "s", " ", "n", "o", "t", " ", "a", "c",
         "c", "e", "p", "t", "e", "d", " ", "b", "y", " ", "t", "h", "e", " ", "p", "a", "t",
         "t", "e", "r", "n", " ", "'", "\\", "S", "+", "'", ".">>,
     <<"E", "l", "e", "m", "e", "n", "t", " ", "'", "C", "o", "m", "m", "o", "n", "C", "a", "r",
         "r", "i", "e", "r", "P", "e", "r", "m", "i", "t", "N", "u", "m", "b", "e", "r", "'",
         ":", " ", "T", "h", "i", "s", " ", "e", "l", "e", "m", "e", "n", "t", " ", "i", "s",
         " ", "n", "o", "t", " ", "e", "x", "p", "e", "c", "t", "e", "d", ".">>,
     <<"E", "l", "e", "m", "e", "n", "t", " ", "'", "P", "e", "r", "m", "i", "t", "N", "u", "m",
         "b", "e", "r", "'", ":", " ", "[", "f", "a", "c", "e", "t", " ", "'", "p", "a", "t",
         "t", "e", "r", "n", "'", "]", " ", "T", "h", "e", " ", "v", "a", "l", "u", "e", " ",
         "'", "1", "'", " ", "i", "s", " ", "n", "o", "t", " ", "a", "c", "c", "e", "p", "t",
         "e", "d", " ", "b", "y", " ", "t", "h", "e", " ", "p", "a", "t", "t", "e", "r", "n",
         " ", "'", "\\", "S", "+", "'", ".">>,
     <<"E", "l", "e", "m", "e", "n", "t", " ", "'", "T", "a", "x", "P", "e", "r", "i", "o", "d",
         "B", "e", "g", "i", "n", "D", "a", "t", "e", "'", ":", " ", "'", "'", " ", "i", "s",
         " ", "n", "o", "t", " ", "a", " ", "v", "a", "l", "i", "d", " ", "v", "a", "l", "u",
         "e", " ", "o", "f", " ", "t", "h", "e", " ", "a", "t", "o", "m", "i", "c", " ", "t",
         "y", "p", "e", " ", "'", "x", "s", ":", "d", "a", "t", "e", "'", ".">>,
     <<"E", "l", "e", "m", "e", "n", "t", " ", "'", "T", "a", "x", "P", "e", "r", "i", "o", "d",
         "E", "n", "d", "D", "a", "t", "e", "'", ":", " ", "T", "h", "e", " ", "v", "a", "l",
         "u", "e", " ", "'", "2", "0", "2", "5", "'", " ", "i", "s", " ", "n", "o", "t", " ",
         "a", " ", "d", "a", "t", "e">>,
     <<"E", "l", "e", "m", "e", "n", "t", " ", "'", "S", "h", "i", "p", "m", "e", "n", "t", "D",
         "a", "t", "e", "'", ":", " ", "T", "h", "e", " ", "v", "a", "l", "u", "e", " ", "'",
         " ", "'", " ", "i", "s", " ", "n", "o", "t", " ", "a", " ", "d", "a", "t", "e">>,
     <<"T", "h", "e", " ", "v", "a", "l", "u", "e", " ", "'", "x", "'", " ", "i", "s", " ", "n",
         "o", "t", " ", "i", "n", " ", "Y", "Y", "Y", "Y", "-", "M", "M", "-", "D", "D", " ",
         "f", "o", "r", "m">>,
     <<"E", "l", "e", "m", "e", "n", "t", " ", "'", "A", "c", "k", "A", "d", "d", "r", "e", "s",
         "s", "'", ":", " ", "[", "f", "a", "c", "e", "t", " ", "'", "p", "a", "t", "t", "e",
         "r", "n", "'", "]", " ", "T", "h", "e", " ", "v", "a", "l", "u", "e", " ", "'", "a",
         "'", " ", "i", "s", " ", "n", "o", "t", " ", "a", "c", "c", "e", "p", "t", "e", "d",
         " ", "b", "y", " ", "t", "h", "e", " ", "p", "a", "t", "t", "e", "r", "n", " ", "'",
         "\\", "S", "+", "'", ".">>,
     <<"E", "l", "e", "m", "e", "n", "t", " ", "'", "S", "t", "a", "t", "e", "'", ":", " ", "[",
         "f", "a", "c", "e", "t", " ", "'", "e", "n", "u", "m", "e", "r", "a", "t", "i", "o",
         "n", "'", "]", " ", "T", "h", "e", " ", "v", "a", "l", "u", "e", " ", "'", "W", "i",
         "s", "c", "o", "n", "s", "i", "n", "'", " ", "i", "s", " ", "n", "o", "t", " ", "a",
         "n", " ", "e", "l", "e", "m", "e", "n", "t", " ", "o", "f", " ", "t", "h", "e", " ",
         "s", "e", "t", ".">>,
     <<"E", "l", "e", "m", "e", "n", "t", " ", "'", "S", "t", "a", "t", "e", "'", ":", " ", "[",
         "f", "a", "c", "e", "t", " ", "'", "e", "n", "u", "m", "e", "r", "a", "t", "i", "o",
         "n", "'", "]", " ", "T", "h", "e", " ", "v", "a", "l", "u", "e", " ", "'", "O", "h",
         "i", "o", "'", " ", "i", "s", " ", "n", "o", "t", " ", "a", "n", " ", "e", "l", "e",
         "m", "e", "n", "t", " ", "o", "f", " ", "t", "h", "e", " ", "s", "e", "t", ".">>,
     <<"E", "l", "e", "m", "e", "n", "t", " ", "'", "S", "t", "a", "t", "e", "'", ":", " ", "[",
         "f", "a", "c", "e", "t", " ", "'", "e", "n", "u", "m", "e", "r", "a", "t", "i", "o",
         "n", "'", "]", " ", "T", "h", "e", " ", "v", "a", "l", "u", "e", " ", "'", "w", "i",
         "'", " ", "i", "s", " ", "n", "o", "t", " ", "a", "n", " ", "e", "l", "e", "m", "e",
         "n", "t", " ", "o", "f", " ", "t", "h", "e", " ", "s", "e", "t", ".">>,
     <<"E", "l", "e", "m", "e", "n", "t", " ", "'", "C", "i", "t", "y", "'", ":", " ", "[", "f",
         "a", "c", "e", "t", " ", "'", "p", "a", "t", "t", "e", "r", "n", "'", "]", " ", "T",
         "h", "e", " ", "v", "a", "l", "u", "e", " ", "'", "E", "a", "u", " ", "C", "l", "a",
         "i", "r", "e", " ", "2", ".", "'", " ", "i", "s", " ", "n", "o", "t", " ", "a", "c",
         "c", "e", "p", "t", "e", "d", " ", "b", "y", " ", "t", "h", "e", " ", "p", "a", "t",
         "t", "e", "r", "n", " ", "'", "\\", "S", "+", "'", ".">>,
     <<"E", "l", "e", "m", "e", "n", "t", " ", "'", "C", "i", "t", "y", "'", ":", " ", "[", "f",
         "a", "c", "e", "t", " ", "'", "p", "a", "t", "t", "e", "r", "n", "'", "]", " ", "T",
         "h", "e", " ", "v", "a", "l", "u", "e", " ", "'", "T", "I", "N", "Y", "'", " ", "i",
         "s", " ", "n", "o", "t", " ", "a", "c", "c", "e", "p", "t", "e", "d", " ", "b", "y",
         " ", "t", "h", "e", " ", "p", "a", "t", "t", "e", "r", "n", " ", "'", "\\", "S", "+",
         "'", ".">>,
     <<"<", "C", "i", "t", "y", ">", " ", "h", "o", "l", "d", "s", " ", "t", "h", "e", " ", "v",
         "a", "l", "u", "e", " ", "'", "1", "2", "'">>,
     <<"E", "l", "e", "m", "e", "n", "t", " ", "'", "B", "u", "s", "i", "n", "e", "s", "s", "N",
         "a", "m", "e", "L", "i", "n", "e", "1", "'", ":", " ", "[", "f", "a", "c", "e", "t",
         " ", "'", "p", "a", "t", "t", "e", "r", "n", "'", "]", " ", "T", "h", "e", " ", "v",
         "a", "l", "u", "e", " ", "'", "A", "@", "B", "'", " ", "i", "s", " ", "n", "o", "t",
         " ", "a", "c", "c", "e", "p", "t", "e", "d", " ", "b", "y", " ", "t", "h", "e", " ",
         "p", "a", "t", "t", "e", "r", "n", " ", "'", "\\", "S", "+", "'", ".">>,
     <<"E", "l", "e", "m", "e", "n", "t", " ", "'", "W", "e", "i", "g", "h", "t", "O", "f", "B",
         "e", "v", "e", "r", "a", "g", "e", "s", "'", ":", " ", "'", "a", "b", "c", "'", " ",
         "i", "s", " ", "n", "o", "t", " ", "a", " ", "v", "a", "l", "i", "d", " ", "v", "a",
         "l", "u", "e", " ", "o", "f", " ", "t", "h", "e", " ", "a", "t", "o", "m", "i", "c",
         " ", "t", "y", "p", "e", " ", "'", "x", "s", ":", "d", "e", "c", "i", "m", "a", "l",
         "'", ".">>,
     <<"E", "l", "e", "m", "e", "n", "t", " ", "'", "T", "r", "a", "c", "k", "i", "n", "g", "N",
         "u", "m", "b", "e", "r", "'", ":", " ", "T", "h", "e", " ", "v", "a", "l", "u", "e",
         " ", "w", "a", "s", " ", "N", "o", "t", " ", "A", "c", "c", "e", "p", "t", "e", "d">>,
     <<"E", "l", "e", "m", "e", "n", "t", " ", "'", "S", "h", "i", "p", "m", "e", "n", "t", "'",
         ":", " ", "M", "i", "s", "s", "i", "n", "g", " ", "c", "h", "i", "l", "d", " ", "e",
         "l", "e", "m", "e", "n", "t", "(", "s", ")", ".">>,
     Empty}

SampleMessages ==
    {OnLine(text, n) : text \in LocatedMessages, n \in SampleLines}
    \cup {DocumentInvalid(text, 0) : text \in UnlocatedMessages}

InitXml ==
    /\ pc = "ready"
    /\ fn = "none"
    /\ arg = NoValue
    /\ ret = NoValue
    /\ line = 0
    /\ origin = NoOrigin
    /\ dateutil = NotTried
    /\ shipments = <<>>
    /\ assembled = <<>>
    /\ response = "none"
    /\ earlier = NoCall
    /\ lxml = NotCalled
    /\ filer_config_file = Missing
    /\ defaults_config_file = Missing

\* generator.generate_xml(...), on a new generator or after a first call
CallGenerateXml ==
    /\ pc \in {"ready", "done"}
    /\ pc = "done" => fn = "XMLGenerator.generate_xml"
    /\ \E input \in AssemblerInputs :
          \E r \in {XMLGenerator_generate_xml(input.report_type, input.filer_data,
                                              input.shipments, input.tax_period_begin,
                                              input.tax_period_end, input.ack_email,
                                              input.amended)} :
             /\ arg' = input
             /\ ret' = r
    /\ earlier' = IF pc = "ready" THEN earlier ELSE [input |-> arg, output |-> ret]
    /\ pc' = IF pc = "ready" THEN "done" ELSE "again"
    /\ fn' = "XMLGenerator.generate_xml"
    /\ UNCHANGED <<line, origin, dateutil, shipments, assembled, response, lxml,
                 filer_config_file, defaults_config_file>>

\* generator.validate_xml(xml_string), on the document just generated or on a
\* text that is no XML
CallValidateXml ==
    /\ pc \in {"ready", "done"}
    /\ pc = "done" => fn = "XMLGenerator.generate_xml" /\ ~ret.raised
    /\ \E xml_string \in (IF pc = "done" THEN {ret.xml_string} ELSE NotXml) :
          \E outcome \in (IF pc = "done" THEN OutcomesOf(ret.root) ELSE SyntaxErrors) :
             /\ arg' = [xml_string |-> xml_string]
             /\ ret' = validate_xml(xml_string, outcome)
             /\ lxml' = outcome
    /\ pc' = "validated"
    /\ fn' = "XMLGenerator.validate_xml"
    /\ UNCHANGED <<line, origin, dateutil, shipments, assembled, response, earlier,
                 filer_config_file, defaults_config_file>>

\* generator._enhance_validation_error(error_msg, xml_string), called by itself
CallEnhance ==
    /\ pc = "ready"
    /\ \E xml_string \in SampleTexts : \E sample \in SampleMessages :
          /\ arg' = [error_msg |-> sample.message, xml_string |-> xml_string]
          /\ ret' = enhance_validation_error(sample.message, xml_string)
          /\ lxml' = sample
    /\ pc' = "enhanced"
    /\ fn' = "XMLGenerator._enhance_validation_error"
    /\ UNCHANGED <<line, origin, dateutil, shipments, assembled, response, earlier,
                 filer_config_file, defaults_config_file>>

NextXml == CallGenerateXml \/ CallValidateXml \/ CallEnhance

SpecXml == InitXml /\ [][NextXml]_vars

-----------------------------------------------------------------------------
(* Claims about the sanitisers, checked under SpecClean *)

AllIn(s, class) == \A i \in DOMAIN s : s[i] \in class

Called(f) == pc = "done" /\ fn = f

\* the digits of s, in order
DigitsOf(s) == SelectSeq(s, IsDigit)

\* how many letters and digits s holds
AlnumCount(s) ==
    Cardinality({i \in DOMAIN s : s[i] \in DigitChars \cup UpperChars \cup LowerChars})

\* C5 as stated: every result of clean_zip_code is exactly 5 or exactly 9
\* characters long and holds only characters of 0-9 and A-Z.
C5_ZipFiveOrNine ==
    Called("clean_zip_code") => Len(ret) \in {5, 9} /\ AllIn(ret, ZipClass)

\* C5 amended: every result of clean_zip_code holds only characters of 0-9
\* and A-Z; a result that is all digits has at least 5 characters, being the
\* input's digits zero-padded on the left to 5 when there are fewer; any other
\* result (one holding a letter, or the empty one) is exactly the input's
\* letters and digits, upper-cased, unpadded and of any length.
C5_ZipShape ==
    Called("clean_zip_code") =>
        /\ AllIn(ret, ZipClass)
        /\ isdigit(ret) => Len(ret) >= 5
        /\ Len(ret) = IF AlnumCount(arg) \in 1..4 /\ AlnumCount(arg) = Len(DigitsOf(arg))
                      THEN 5 ELSE AlnumCount(arg)
        /\ \A i \in DOMAIN ret : i <= Len(ret) - AlnumCount(arg) => ret[i] = "0"

C5_Witness ==
    /\ Called("clean_zip_code")
    /\ arg = <<"1", "2", "3", "4">>
    /\ ret = <<"0", "1", "2", "3", "4">>

StreetAllowed == UpperChars \cup LowerChars \cup DigitChars \cup {"-", "/", " "}

\* C9: clean_street_address is idempotent, and its result holds no period,
\* only letters, digits, hyphen, slash and space, with no leading, trailing
\* or consecutive spaces ("N. Main St." becomes "N Main St").
C9_StreetIdempotent ==
    Called("clean_street_address") =>
        /\ clean_street_address(ret) = ret
        /\ AllIn(ret, StreetAllowed)
        /\ \A i \in DOMAIN ret : ret[i] # "."
        /\ ret # <<>> => ret[1] # " " /\ ret[Len(ret)] # " "
        /\ \A i \in 1..(Len(ret) - 1) : ~(ret[i] = " " /\ ret[i + 1] = " ")
        /\ arg = <<"N", ".", " ", "M", "a", "i", "n", " ", "S", "t", ".">>
               => ret = <<"N", " ", "M", "a", "i", "n", " ", "S", "t">>

C9_Witness ==
    /\ Called("clean_street_address")
    /\ arg = <<"N", ".", " ", "M", "a", "i", "n", " ", "S", "t", ".">>
    /\ ret = <<"N", " ", "M", "a", "i", "n", " ", "S", "t">>

\* the first `width` digits of s, zero-padded on the left to `width`
PaddedDigits(s, width) ==
    LET ds == DigitsOf(s)
        n  == IF Len(ds) < width THEN Len(ds) ELSE width
    IN  [i \in 1..width |-> IF i <= width - n THEN "0" ELSE ds[i - (width - n)]]

\* C10: clean_tin returns exactly 9 decimal digits and clean_permit_number
\* exactly 15: the non-digits are removed, a shorter digit sequence is
\* zero-padded on the left, a longer one cut to its first 9 / 15 digits
\* (clean_tin("12-3456789") = "123456789",
\* clean_permit_number("123456") = "000000000123456").
C10_FixedLengthDigits ==
    /\ Called("clean_tin") =>
          /\ Len(ret) = 9
          /\ AllIn(ret, DigitChars)
          /\ ret = PaddedDigits(arg, 9)
          /\ arg = <<"1", "2", "-", "3", "4", "5", "6", "7", "8", "9">>
                 => ret = <<"1", "2", "3", "4", "5", "6", "7", "8", "9">>
    /\ Called("clean_permit_number") =>
          /\ Len(ret) = 15
          /\ AllIn(ret, DigitChars)
          /\ ret = PaddedDigits(arg, 15)

C10_Witness ==
    /\ Called("clean_permit_number")
    /\ arg = <<"1", "2", "3", "4", "5", "6">>
    /\ ret = <<"0", "0", "0", "0", "0", "0", "0", "0", "0", "1", "2", "3", "4", "5", "6">>

-----------------------------------------------------------------------------
(* Claims about normalize_date, checked under SpecDate *)

\* YYYY-MM-DD: four digits, two digits, two digits, hyphens between
HasIsoShape(s) ==
    /\ Len(s) = 10
    /\ \A i \in DOMAIN s : IF i \in {5, 8} THEN s[i] = "-" ELSE s[i] \in DigitChars

\* the canonical string of a calendar date
IsoDate(y, m, d) ==
    <<Digits[(y \div 1000) + 1], Digits[((y \div 100) % 10) + 1],
      Digits[((y \div 10) % 10) + 1], Digits[(y % 10) + 1], "-",
      Digits[(m \div 10) + 1], Digits[(m % 10) + 1], "-",
      Digits[(d \div 10) + 1], Digits[(d % 10) + 1]>>

YearOf(s) == NumberAt(s, 1, 4)

InWindow(y) == 1900 <= y /\ y <= 2100

\* C6 as stated: normalize_date returns a string of the form YYYY-MM-DD or
\* exactly the original input, character for character.
C6_IsoOrOriginal ==
    Called("normalize_date") => HasIsoShape(ret) \/ ret = arg

\* C6 amended: normalize_date returns a string of the form YYYY-MM-DD or the
\* input with its leading and trailing whitespace removed (the empty string
\* for an input of whitespace only); it never returns anything else and
\* always returns.
C6_IsoOrStripped ==
    Called("normalize_date") =>
        /\ HasIsoShape(ret) \/ ret = strip(arg)
        /\ line \in {165, 171, 217, 226, 231}

C6_Witness ==
    /\ Called("normalize_date")
    /\ arg = <<" ", "n", "o", "t", " ", "a", " ", "d", "a", "t", "e">>
    /\ ret = <<"n", "o", "t", " ", "a", " ", "d", "a", "t", "e">>

Rendered == Called("normalize_date") /\ origin.kind = "rendered"

\* the formats that write the year with four digits
FourDigitYear(k) == \E i \in DOMAIN formats[k] : formats[k][i] = "%Y"

\* the formats that put the day before a numeric month
DayFirstNumeric(k) ==
    \E i, j \in DOMAIN formats[k] : i < j /\ formats[k][i] = "%d" /\ formats[k][j] = "%m"

\* C7 as stated: every rendering, in any format of the list, of a calendar
\* date with year in 1900..2100 normalizes to that date's YYYY-MM-DD string.
C7_AllRenderingsAgree ==
    Rendered /\ InWindow(origin.year) =>
        ret = IsoDate(origin.year, origin.month, origin.day)

\* C7 amended: for every calendar date with year in 1900..2100, its renderings
\* in the formats that write the year with four digits and do not put the day
\* before a numeric month (Y-m-d, m/d/Y, m-d-Y, Y/m/d, Y.m.d, the six
\* named-month formats, YYYYMMDD, MMDDYYYY) all normalize to the same
\* YYYY-MM-DD string of that date; a day-first numeric rendering (d/m/Y,
\* d-m-Y) does so only when its day is above 12 or equals its month, and is
\* otherwise read month-first; the two-digit-year renderings are not covered.
C7_FourDigitYearRenderingsAgree ==
    Rendered /\ InWindow(origin.year) /\ FourDigitYear(origin.format) =>
        IF DayFirstNumeric(origin.format) /\ origin.day <= 12
        THEN ret = IsoDate(origin.year, origin.day, origin.month)
        ELSE ret = IsoDate(origin.year, origin.month, origin.day)

C7_Witness ==
    /\ Rendered
    /\ arg = <<"O", "c", "t", "o", "b", "e", "r", " ", "2", "9", ",", " ", "2", "0", "2", "5">>
    /\ ret = <<"2", "0", "2", "5", "-", "1", "0", "-", "2", "9">>

\* whether no format of the list parses s to a year of the window
NoFormatInWindow(s) == ~TryFormats(s, 1).ok

\* C8 as stated, in a build without dateutil: a parse whose year is outside
\* 1900..2100 is not accepted; if no format yields a year inside 1900..2100
\* the original string is returned unchanged; no converted date has a year
\* outside 1900..2100.
C8_WindowOrOriginal ==
    Called("normalize_date") /\ ~dateutil.ok =>
        /\ NoFormatInWindow(strip(arg)) => ret = arg
        /\ ret # arg => HasIsoShape(ret) /\ InWindow(YearOf(ret))

\* C8 amended: a parse whose year is outside 1900..2100 is never accepted:
\* every result other than the input stripped of its surrounding whitespace
\* is a YYYY-MM-DD date with year in 1900..2100; if no format yields a year
\* inside 1900..2100 the result is the stripped input (not the original
\* character for character), unless the optional dateutil fallback parses it
\* to a year inside 1900..2100, and then it is that date; so a date with a
\* year outside 1900..2100 written with four year digits comes back as it was.
C8_YearWindow ==
    Called("normalize_date") =>
        /\ ret # strip(arg) => HasIsoShape(ret) /\ InWindow(YearOf(ret))
        /\ NoFormatInWindow(strip(arg)) =>
              IF dateutil.ok /\ InWindow(dateutil.year)
              THEN ret = IsoDate(dateutil.year, dateutil.month, dateutil.day)
              ELSE ret = strip(arg)
        /\ /\ origin.kind = "rendered"
           /\ FourDigitYear(origin.format)
           /\ ~InWindow(origin.year)
           /\ ~(dateutil.ok /\ InWindow(dateutil.year))
           => ret = arg
        /\ arg = <<"1", "3", "/", "4", "5", "/", "1", "8", "7", "5">> /\ ~dateutil.ok
              => ret = arg

C8_Witness ==
    /\ Rendered
    /\ origin.year = 1875
    /\ origin.format = 2
    /\ dateutil = Failed
    /\ arg = <<"0", "3", "/", "0", "1", "/", "1", "8", "7", "5">>
    /\ ret = arg

-----------------------------------------------------------------------------
(* Claims about the mapping and the generation request, checked under Spec *)

MappedBy(report_type) ==
    fn = "map_csv" /\ arg.report_type = report_type /\ ~ret.raised

AssembledFor(report_type) ==
    fn = "generate_xml" /\ response = "assembled" /\ arg.report_type = report_type

ConsignorKeys ==
    [consignor_name |-> "name", consignor_address_line1 |-> "address_line1",
     consignor_address_line2 |-> "address_line2", consignor_city |-> "city",
     consignor_state |-> "state", consignor_zip |-> "zip",
     permit_number |-> "permit_number"]

ManufacturerKeys ==
    [manufacturer_name |-> "name", manufacturer_address_line1 |-> "address_line1",
     manufacturer_address_line2 |-> "address_line2", manufacturer_city |-> "city",
     manufacturer_state |-> "state", manufacturer_zip |-> "zip",
     wine_permit_number |-> "wine_permit_number"]

AddressFields == (DOMAIN ManufacturerKeys) \ {"wine_permit_number"}

\* the field is on both records with one value, or on neither
SameField(before, after, field) ==
    /\ (field \in DOMAIN after) = (field \in DOMAIN before)
    /\ field \in DOMAIN after => after[field] = before[field]

\* C1: mapping the single row {"Ship To Company": "Bob", "Ship To Zip":
\* "53703", "LB": "10", "Order Date": "3/5/24"} with consignor defaults
\* {name: "Acme", zip: "1234"} yields one shipment with consignor_zip "01234",
\* consignee_zip "53703", shipment_date "2024-03-05", weight_of_beverages 10.0.
C1_EndToEnd ==
    /\ fn = "map_csv"
    /\ arg.report_type = "CommonCarrier"
    /\ arg.csv_rows = <<BobRow>>
    /\ Get(arg.defaults, "consignor", Empty) = AcmeConsignor
    => /\ ~ret.raised
       /\ Len(ret.shipments) = 1
       /\ ret.shipments[1]["consignor_zip"] = <<"0", "1", "2", "3", "4">>
       /\ ret.shipments[1]["consignee_zip"] = <<"5", "3", "7", "0", "3">>
       /\ ret.shipments[1]["shipment_date"] = <<"2", "0", "2", "4", "-", "0", "3", "-", "0", "5">>
       /\ ret.shipments[1]["weight_of_beverages"] = Float(FALSE, 10, 0)

\* C2 as stated: after mapping and after every generation request whose
\* defaults record holds a value for the field, every consignor field (Common
\* Carrier) and every manufacturer field and permit (Fulfillment House) of
\* every shipment equals that value, the empty string included (a field the
\* shipment lacks counting as empty).
C2_OverwriteAlways ==
    /\ MappedBy("CommonCarrier") \/ AssembledFor("CommonCarrier") =>
          LET list == IF fn = "map_csv" THEN ret.shipments ELSE assembled.shipments
              consignor == Get(arg.defaults, "consignor", Empty)
          IN  \A i \in DOMAIN list : \A f \in DOMAIN ConsignorKeys :
                 ConsignorKeys[f] \in DOMAIN consignor =>
                    Get(list[i], f, Empty) = consignor[ConsignorKeys[f]]
    /\ MappedBy("FulfillmentHouse") \/ AssembledFor("FulfillmentHouse") =>
          LET list == IF fn = "map_csv" THEN ret.shipments ELSE assembled.shipments
              manufacturer == Get(arg.defaults, "manufacturer", Empty)
          IN  \A i \in DOMAIN list :
                 /\ \A f \in DOMAIN ManufacturerKeys :
                       ManufacturerKeys[f] \in DOMAIN manufacturer =>
                          Get(list[i], f, Empty) = manufacturer[ManufacturerKeys[f]]
                 /\ "common_carrier_permit" \in DOMAIN arg.defaults =>
                       Get(list[i], "common_carrier_permit_number", Empty) =
                          arg.defaults["common_carrier_permit"]

\* C2 amended: after mapping, every consignor field (Common Carrier) or
\* manufacturer field and permit (Fulfillment House) of every shipment equals
\* the value in the supplied defaults record, empty where the record has none.
\* After a Common Carrier generation request every consignor field the
\* record's consignor block holds equals the block's value, whatever the
\* shipment carried before and also when that value is the empty string, and
\* a field the block lacks keeps the shipment's value. After a Fulfillment
\* House generation request whose manufacturer block is not empty the same
\* holds of manufacturer name, address lines 1-2, city, state and zip, while
\* wine_permit_number and common_carrier_permit_number are overwritten only
\* by a non-empty default; with an empty or absent manufacturer block no
\* field is overwritten.
C2_OverwriteWhenPresent ==
    /\ MappedBy("CommonCarrier") /\ "consignor" \in DOMAIN arg.defaults =>
          \A i \in DOMAIN ret.shipments : \A f \in DOMAIN ConsignorKeys :
             ret.shipments[i][f] = Get(arg.defaults["consignor"], ConsignorKeys[f], Empty)
    /\ MappedBy("FulfillmentHouse") /\ "manufacturer" \in DOMAIN arg.defaults =>
          \A i \in DOMAIN ret.shipments :
             /\ \A f \in DOMAIN ManufacturerKeys :
                   ret.shipments[i][f] =
                      Get(arg.defaults["manufacturer"], ManufacturerKeys[f], Empty)
             /\ ret.shipments[i]["common_carrier_permit_number"] =
                   Get(arg.defaults, "common_carrier_permit", Empty)
    /\ AssembledFor("CommonCarrier") =>
          LET consignor == Get(arg.defaults, "consignor", Empty)
          IN  /\ DOMAIN assembled.shipments = DOMAIN arg.shipments
              /\ \A i \in DOMAIN assembled.shipments : \A f \in DOMAIN ConsignorKeys :
                    assembled.shipments[i][f] =
                       IF ConsignorKeys[f] \in DOMAIN consignor
                       THEN consignor[ConsignorKeys[f]]
                       ELSE Get(arg.shipments[i], f, Empty)
    /\ AssembledFor("FulfillmentHouse") =>
          LET manufacturer == Get(arg.defaults, "manufacturer", Empty)
              permit == Get(arg.defaults, "common_carrier_permit", Empty)
          IN  /\ DOMAIN assembled.shipments = DOMAIN arg.shipments
              /\ \A i \in DOMAIN assembled.shipments :
                    LET before == arg.shipments[i]
                        after == assembled.shipments[i]
                    IN  IF Truthy(manufacturer)
                        THEN /\ \A f \in AddressFields :
                                   after[f] =
                                      IF ManufacturerKeys[f] \in DOMAIN manufacturer
                                      THEN manufacturer[ManufacturerKeys[f]]
                                      ELSE Get(before, f, Empty)
                             /\ IF Truthy(Get(manufacturer, "wine_permit_number", Empty))
                                THEN after["wine_permit_number"] =
                                        manufacturer["wine_permit_number"]
                                ELSE SameField(before, after, "wine_permit_number")
                             /\ IF Truthy(permit)
                                THEN after["common_carrier_permit_number"] = permit
                                ELSE SameField(before, after, "common_carrier_permit_number")
                        ELSE \A f \in (DOMAIN ManufacturerKeys)
                                         \cup {"common_carrier_permit_number"} :
                                SameField(before, after, f)

C2_Witness ==
    /\ AssembledFor("CommonCarrier")
    /\ arg.defaults = BlankDefaults
    /\ Len(arg.shipments) = 2
    /\ arg.shipments[2]["consignor_name"] = <<"Z", "e", "d">>
    /\ assembled.shipments[2]["consignor_name"] = Empty
    /\ assembled.shipments[2]["permit_number"] = Empty

\* C3: in every Common Carrier generation request whose defaults record has a
\* non-empty consignor name, every shipment of the batch reaches the assembler
\* with consignor_name equal to that name, whatever consignor_name it carried
\* (one written by an earlier call with other defaults included).
C3_DefaultNameWins ==
    /\ AssembledFor("CommonCarrier")
    /\ Truthy(Get(Get(arg.defaults, "consignor", Empty), "name", Empty))
    => /\ Len(assembled.shipments) = Len(arg.shipments)
       /\ \A i \in DOMAIN assembled.shipments :
             assembled.shipments[i]["consignor_name"] = arg.defaults["consignor"]["name"]

C3_Witness ==
    /\ AssembledFor("CommonCarrier")
    /\ arg.defaults = AcmeDefaults
    /\ Len(arg.shipments) = 2
    /\ \A i \in {1, 2} :
          /\ arg.shipments[i]["consignor_name"] = <<"Z", "e", "d">>
          /\ assembled.shipments[i]["consignor_name"] = <<"A", "c", "m", "e">>

\* a string of exactly width decimal digits
FixedDigits(s, width) == Len(s) = width /\ AllIn(s, DigitChars)

PermitFields == {"permit_number", "wine_permit_number", "common_carrier_permit_number"}

\* C4: every permit number carried by a shipment the mapper produced is a
\* string of 15 digits, and every TIN value that reaches the assembler is a
\* string of 9 digits, whatever punctuation or length the defaults or the
\* filer record had.
C4_FixedLengthNumbers ==
    /\ fn = "map_csv" /\ ~ret.raised =>
          \A i \in DOMAIN ret.shipments :
             \A f \in PermitFields \cap DOMAIN ret.shipments[i] :
                Truthy(ret.shipments[i][f]) => FixedDigits(ret.shipments[i][f], 15)
    /\ fn = "generate_xml" /\ response = "assembled" =>
          FixedDigits(assembled.filer_data["tin_value"], 9)

\* the synonym table of the report type of the last request
TableOf(report_type) ==
    IF report_type = "CommonCarrier" THEN COMMON_CARRIER_MAPPINGS
    ELSE FULFILLMENT_HOUSE_MAPPINGS

BottleFields == {"bottle_count", "bottle_size_ml"}

\* the row has a value under a header that the table maps to one of the fields
Supplies(mappings, row, fields) ==
    \E h \in DOMAIN row :
       HasEntry(mappings, h) /\ Entry(mappings, h) \in fields /\ Truthy(row[h])

\* a number of litres in millilitres
Millilitres(x) == x.num * 10 ^ (3 - x.scale)

\* C11: every Fulfillment House shipment the mapper returns has neither a
\* bottle_count nor a bottle_size_ml key, and whenever the row supplied bottle
\* data it has quantity_of_wine, the count times the size in litres rounded to
\* one decimal.
C11_NoRawBottleFields ==
    MappedBy("FulfillmentHouse") =>
       \A i \in DOMAIN ret.shipments :
          /\ BottleFields \cap DOMAIN ret.shipments[i] = {}
          /\ Supplies(FULFILLMENT_HOUSE_MAPPINGS, arg.csv_rows[i], BottleFields) =>
                /\ "quantity_of_wine" \in DOMAIN ret.shipments[i]
                /\ \E c, z \in DOMAIN arg.csv_rows[i] :
                      /\ Supplies(FULFILLMENT_HOUSE_MAPPINGS, [h \in {c} |-> arg.csv_rows[i][h]],
                                  {"bottle_count"})
                      /\ Supplies(FULFILLMENT_HOUSE_MAPPINGS, [h \in {z} |-> arg.csv_rows[i][h]],
                                  {"bottle_size_ml"})
                      /\ LET total_ml == int(arg.csv_rows[i][c]).value
                                         * int(arg.csv_rows[i][z]).value
                             litres == Millilitres(ret.shipments[i]["quantity_of_wine"])
                         IN  litres - total_ml \in -50..50

\* the fields that hold a number, not a text
NumberFields == {"weight_of_beverages", "quantity_of_wine"} \cup BottleFields

\* the names a shipment record of the report type may have as keys
CanonicalFields(report_type) ==
    {TableOf(report_type)[k][2] : k \in DOMAIN TableOf(report_type)}
    \cup (IF report_type = "CommonCarrier"
          THEN DOMAIN ConsignorKeys
               \cup {"tracking_number", "bill_of_lading_number", "consignee_address_line2"}
          ELSE DOMAIN ManufacturerKeys
               \cup {"common_carrier_permit_number", "quantity_of_wine", "tracking_number",
                     "consignee_address_line2", "different_consignor_name"})

\* the fields the mapper copies as they are
CopiedFields ==
    {"consignee_name", "consignee_city", "consignee_state", "tracking_number",
     "bill_of_lading_number"}

\* the header is the only one of the row that supplies its field
OnlySupplier(mappings, row, h) ==
    \A g \in DOMAIN row :
       HasEntry(mappings, g) /\ Entry(mappings, g) = Entry(mappings, h) /\ Truthy(row[g])
       => g = h

\* the text is a number: an optional sign, digits, at most one decimal point
IsNumberText(value) ==
    LET body == Unsigned(strip(value))
    IN  /\ \E n \in DOMAIN body : body[n] \in DigitChars
        /\ \A n \in DOMAIN body : body[n] \in DigitChars \cup {"."}
        /\ Cardinality({n \in DOMAIN body : body[n] = "."}) <= 1

IsIntegerText(value) ==
    LET body == Unsigned(strip(value))
    IN  body # <<>> /\ \A n \in DOMAIN body : body[n] \in DigitChars

\* what C12 says of the shipments: a header with an entry populates its field
\* (the bottle fields apart, which are converted); a failure always comes from
\* a mapped number column whose value is no number; neither the name nor the
\* value of a header without an entry is in any shipment, whose keys are all
\* canonical field names
UnmappedColumnsIgnored ==
    LET mappings == TableOf(arg.report_type)
        rows == arg.csv_rows
    IN  /\ ret.raised =>
              \E i \in DOMAIN rows : \E h \in DOMAIN rows[i] :
                 /\ HasEntry(mappings, h) /\ Truthy(rows[i][h])
                 /\ \/ /\ arg.report_type = "CommonCarrier"
                       /\ Entry(mappings, h) = "weight_of_beverages"
                       /\ ~IsNumberText(rows[i][h])
                    \/ /\ arg.report_type = "FulfillmentHouse"
                       /\ Entry(mappings, h) \in BottleFields
                       /\ ~IsIntegerText(rows[i][h])
        /\ ~ret.raised =>
              \A i \in DOMAIN rows :
                 /\ DOMAIN ret.shipments[i] \subseteq CanonicalFields(arg.report_type)
                 /\ \A h \in DOMAIN rows[i] :
                       IF HasEntry(mappings, h)
                       THEN /\ Truthy(rows[i][h]) /\ Entry(mappings, h) \notin BottleFields
                               => Entry(mappings, h) \in DOMAIN ret.shipments[i]
                            /\ /\ Truthy(rows[i][h])
                               /\ Entry(mappings, h) \in CopiedFields
                               /\ OnlySupplier(mappings, rows[i], h)
                               => ret.shipments[i][Entry(mappings, h)] = rows[i][h]
                       ELSE /\ h \notin DOMAIN ret.shipments[i]
                            /\ Truthy(rows[i][h]) =>
                                  \A f \in (DOMAIN ret.shipments[i]) \ NumberFields :
                                     ret.shipments[i][f] # rows[i][h]

\* C12 as stated: a header with an entry in the synonym table of the report
\* type populates its field; a header without an entry never makes the mapping
\* fail, is listed in the unmapped columns of the report, and neither its name
\* nor its value is in any shipment, whose keys are all canonical field names.
C12_EveryUnmappedHeaderListed ==
    fn = "map_csv" =>
       /\ UnmappedColumnsIgnored
       /\ ~ret.raised =>
             \A h \in arg.csv_header :
                ~HasEntry(TableOf(arg.report_type), h)
                => h \in ret.mapping_report.unmapped_columns

\* C12, amended: the same, the header without an entry being listed in the
\* unmapped columns of the report when the text has at least one row below the
\* header; the report of a text of a header alone lists no column at all.
C12_UnmappedHeaderListedWithRows ==
    fn = "map_csv" =>
       /\ UnmappedColumnsIgnored
       /\ ~ret.raised =>
             IF arg.csv_rows # <<>>
             THEN \A h \in arg.csv_header :
                     ~HasEntry(TableOf(arg.report_type), h)
                     => h \in ret.mapping_report.unmapped_columns
             ELSE /\ ret.mapping_report.unmapped_columns = {}
                  /\ ret.mapping_report.mapped_columns = {}
                  /\ ret.shipments = <<>>

C12_Witness ==
    /\ MappedBy("CommonCarrier")
    /\ Len(arg.csv_rows) = 2
    /\ arg.csv_rows[1]["Notes"] = <<"x">>
    /\ arg.csv_rows[1]["Name"] = <<"A", "l">>
    /\ "Notes" \in ret.mapping_report.unmapped_columns
    /\ "Notes" \notin DOMAIN ret.shipments[1]
    /\ ret.shipments[1]["consignee_name"] = <<"A", "l">>

-----------------------------------------------------------------------------
(* Claims about the Document Assembler, checked under SpecXml *)

Generated == fn = "XMLGenerator.generate_xml"

\* the tags of the children of an element, in document order
Tags(element) == [i \in DOMAIN element.children |-> element.children[i].tag]

Has(element, tag) == \E i \in DOMAIN element.children : element.children[i].tag = tag

\* the first child of the element that has the tag
Sub(element, tag) ==
    element.children[CHOOSE i \in DOMAIN element.children :
                        /\ element.children[i].tag = tag
                        /\ \A j \in 1..(i - 1) : element.children[j].tag # tag]

\* the value is absent from the dict, or empty
Lacks(data, key) == key \notin DOMAIN data \/ data[key] = Empty

RequiredOfFiler ==
    {"tin_value", "business_name_line1", "address_line1", "city", "state", "zip"}

RequiredOfShipment(report_type) ==
    {"consignee_name", "consignee_address_line1", "consignee_city", "consignee_state",
     "consignee_zip", "shipment_date"}
    \cup (IF report_type = "CommonCarrier" THEN {"weight_of_beverages"}
          ELSE {"quantity_of_wine", "wine_permit_number", "common_carrier_permit_number"})

\* C13 as stated: when a required value of the filer or of a shipment is absent
\* or empty, generate_xml fails, the error names a field that is absent or
\* empty, and no document comes back.
C13_RequiredFieldOrFailure ==
    Generated =>
       /\ ( \/ \E k \in RequiredOfFiler : Lacks(arg.filer_data, k)
            \/ \E i \in DOMAIN arg.shipments :
                  \E k \in RequiredOfShipment(arg.report_type) : Lacks(arg.shipments[i], k) )
          => ret.raised /\ ret.xml_string = <<>>
       /\ ret.raised =>
             \/ Lacks(arg.filer_data, ret.key)
             \/ \E i \in DOMAIN arg.shipments : Lacks(arg.shipments[i], ret.key)

\* C14: the children of the root are TaxPeriodBeginDate, TaxPeriodEndDate,
\* Filer (TIN, StateEIN if there is one, Name, Address), AckAddress, then
\* AmendedReturnIndicator with the text X exactly when amended is true, then
\* one Shipment per shipment record, the i-th built from the i-th record.
C14_RootChildrenInOrder ==
    Generated /\ ~ret.raised =>
       /\ Tags(ret.root) =
             <<"TaxPeriodBeginDate", "TaxPeriodEndDate", "Filer", "AckAddress">>
             \o (IF arg.amended THEN <<"AmendedReturnIndicator">> ELSE <<>>)
             \o [i \in 1..Len(arg.shipments) |-> "Shipment"]
       /\ ret.root.children[1].text = arg.tax_period_begin
       /\ ret.root.children[2].text = arg.tax_period_end
       /\ ret.root.children[4].text = arg.ack_email
       /\ Tags(ret.root.children[3]) =
             <<"TIN">>
             \o (IF Lacks(arg.filer_data, "state_ein") THEN <<>> ELSE <<"StateEIN">>)
             \o <<"Name", "Address">>
       /\ arg.amended => ret.root.children[5].text = <<"X">>
       /\ \A i \in DOMAIN arg.shipments :
             LET shipment == ret.root.children[Len(ret.root.children)
                                               - Len(arg.shipments) + i]
             IN  /\ Sub(shipment, "ConsigneeName").text = arg.shipments[i]["consignee_name"]
                 /\ Sub(Sub(shipment, "ConsigneeAddress"), "AddressLine1").text
                       = arg.shipments[i]["consignee_address_line1"]

C14_Witness ==
    /\ Generated /\ ~ret.raised
    /\ arg.amended
    /\ Len(arg.shipments) = 2
    /\ arg.shipments[1]["consignee_name"] # arg.shipments[2]["consignee_name"]
    /\ Len(ret.root.children) = 7
    /\ ret.root.children[5].tag = "AmendedReturnIndicator"
    /\ Has(ret.root.children[3], "StateEIN")

\* the element is there exactly when the value is there and not empty, and
\* then it holds the value
WrittenIfGiven(parent, tag, data, key) ==
    IF Lacks(data, key) THEN ~Has(parent, tag)
    ELSE Has(parent, tag) /\ Sub(parent, tag).text = data[key]

\* the optional elements of the filer and of the shipments, the second
\* address line of the different consignor left aside
OptionalElementsGiven ==
    LET filer == ret.root.children[3]
        first == Len(ret.root.children) - Len(arg.shipments)
    IN  /\ WrittenIfGiven(filer, "StateEIN", arg.filer_data, "state_ein")
        /\ WrittenIfGiven(Sub(filer, "Name"), "BusinessNameLine2", arg.filer_data,
                          "business_name_line2")
        /\ WrittenIfGiven(Sub(filer, "Address"), "AddressLine2", arg.filer_data,
                          "address_line2")
        /\ \A i \in DOMAIN arg.shipments :
              LET shipment == ret.root.children[first + i]
                  data == arg.shipments[i]
              IN  /\ WrittenIfGiven(Sub(shipment, "ConsigneeAddress"), "AddressLine2", data,
                                    "consignee_address_line2")
                  /\ IF arg.report_type = "CommonCarrier"
                     THEN /\ WrittenIfGiven(Sub(shipment, "ConsignorAddress"), "AddressLine2",
                                            data, "consignor_address_line2")
                          /\ WrittenIfGiven(shipment, "PermitNumber", data, "permit_number")
                          /\ WrittenIfGiven(shipment, "BeverageType", data, "beverage_type")
                          /\ WrittenIfGiven(shipment, "BillOfLadingNumber", data,
                                            "bill_of_lading_number")
                     ELSE /\ WrittenIfGiven(Sub(shipment, "ManufacturerAddress"),
                                            "AddressLine2", data,
                                            "manufacturer_address_line2")
                          /\ Has(shipment, "DifferentConsignor")
                                <=> ~Lacks(data, "different_consignor_name")

\* the AddressLine2 elements below the DifferentConsignor element of a shipment
SecondLineOfDifferentConsignor(shipment) ==
    IF Has(shipment, "DifferentConsignor")
    THEN LET address == Sub(Sub(shipment, "DifferentConsignor"), "ConsignorAddress")
         IN  IF Has(address, "AddressLine2") THEN {Sub(address, "AddressLine2").text} ELSE {}
    ELSE {}

\* C15 as stated: each optional element (StateEIN, BusinessNameLine2, every
\* AddressLine2, PermitNumber, BeverageType, BillOfLadingNumber, the
\* DifferentConsignor block) is in the document exactly when its input value
\* is present and not empty.
C15_OptionalIffGiven ==
    Generated /\ ~ret.raised =>
       /\ OptionalElementsGiven
       /\ arg.report_type = "FulfillmentHouse" =>
             \A i \in DOMAIN arg.shipments :
                LET shipment == ret.root.children[Len(ret.root.children)
                                                  - Len(arg.shipments) + i]
                IN  SecondLineOfDifferentConsignor(shipment) =
                       IF Lacks(arg.shipments[i], "different_consignor_address_line2")
                       THEN {}
                       ELSE {arg.shipments[i]["different_consignor_address_line2"]}

\* C15, amended: the same, the AddressLine2 of the different consignor being
\* in the document exactly when different_consignor_address_line2 and
\* different_consignor_name are both present and not empty.
C15_OptionalIffGivenInItsBlock ==
    Generated /\ ~ret.raised =>
       /\ OptionalElementsGiven
       /\ arg.report_type = "FulfillmentHouse" =>
             \A i \in DOMAIN arg.shipments :
                LET shipment == ret.root.children[Len(ret.root.children)
                                                  - Len(arg.shipments) + i]
                IN  SecondLineOfDifferentConsignor(shipment) =
                       IF \/ Lacks(arg.shipments[i], "different_consignor_address_line2")
                          \/ Lacks(arg.shipments[i], "different_consignor_name")
                       THEN {}
                       ELSE {arg.shipments[i]["different_consignor_address_line2"]}

C15_Witness ==
    /\ Generated /\ ~ret.raised
    /\ arg.report_type = "FulfillmentHouse"
    /\ Len(arg.shipments) = 2
    /\ ~Lacks(arg.filer_data, "state_ein")
    /\ ~Lacks(arg.shipments[1], "different_consignor_address_line2")
    /\ SecondLineOfDifferentConsignor(ret.root.children[Len(ret.root.children) - 1])
          = {arg.shipments[1]["different_consignor_address_line2"]}
    /\ Lacks(arg.shipments[2], "different_consignor_name")
    /\ ~Has(ret.root.children[Len(ret.root.children)], "DifferentConsignor")

-----------------------------------------------------------------------------
(* Claims about the Validation Translator, checked under SpecXml *)

Validated == fn = "XMLGenerator.validate_xml"

\* a message went through _enhance_validation_error, called by validate_xml
\* or by itself
Translated ==
    \/ fn = "XMLGenerator._enhance_validation_error"
    \/ Validated /\ lxml.kind = "DocumentInvalid"

\* the report the translator gave
TheReport == IF Validated THEN ret.error ELSE ret

HasPart(report, text, values) ==
    \E i \in DOMAIN report : report[i].text = text /\ report[i].values = values

\* C17: validate_xml raises for no text; it gives (True, None) when the schema
\* accepts the document and (False, message) with a message that is not empty
\* in every other case, a rejection by the schema or any other failure.
C17_ValidateNeverRaises ==
    Validated =>
       /\ ~ret.raised
       /\ lxml.kind = "valid" => ret.is_valid /\ ret.error = Empty
       /\ lxml.kind # "valid" =>
             /\ ~ret.is_valid
             /\ ret.error # Empty
             /\ \E i \in DOMAIN ret.error : ret.error[i].text # ""

C17_Witness ==
    /\ Validated
    /\ lxml.kind = "Exception"
    /\ arg.xml_string = <<<<"a", "b", "c">>, Empty>>
    /\ ~ret.raised /\ ~ret.is_valid
    /\ HasPart(ret.error, "Validation error: {e}", <<lxml.message>>)

\* the words by which a message is taken for one of the kinds of field
FieldKindWords ==
    {<<"A", "d", "d", "r", "e", "s", "s", "L", "i", "n", "e", "1">>,
     <<"T", "I", "N">>,
     <<"P", "e", "r", "m", "i", "t", "N", "u", "m", "b", "e", "r">>,
     <<"D", "a", "t", "e">>, <<"Y", "Y", "Y", "Y", "-", "M", "M", "-", "D", "D">>,
     <<"E", "m", "a", "i", "l">>, <<"A", "c", "k", "A", "d", "d", "r", "e", "s", "s">>,
     <<"S", "t", "a", "t", "e">>, <<"C", "i", "t", "y">>,
     <<"B", "u", "s", "i", "n", "e", "s", "s", "N", "a", "m", "e", "L", "i", "n", "e", "1">>,
     <<"Z", "I", "P">>, <<"Z", "i", "p">>, <<"W", "e", "i", "g", "h", "t">>}

\* the message has none of the words, and does not speak of a pattern
Unmatched(error_msg) ==
    /\ \A word \in FieldKindWords : ~In(word, error_msg)
    /\ ~In(<<"p", "a", "t", "t", "e", "r", "n">>, lower(error_msg))
    /\ ~In(<<"n", "o", "t", " ", "a", "c", "c", "e", "p", "t", "e", "d">>, lower(error_msg))

\* C18: for every message the translator gives a report, and every report
\* says that one error is reported at a time and that the user fixes it and
\* generates again to find the others; a message of no known kind gets the
\* generic lines, with the message itself.
C18_ReportForEveryMessage ==
    Translated =>
       /\ TheReport # <<>>
       /\ HasPart(TheReport,
                  "NOTE: Fixing one error at a time - there may be more after you fix this one.",
                  <<>>)
       /\ HasPart(TheReport,
                  "Just fix this issue and click 'Generate & Validate' again to check for others.",
                  <<>>)
       /\ Len(TheReport) > Len(Header) + Len(Footer)
       /\ Unmatched(lxml.message) =>
             /\ HasPart(TheReport, "PROBLEM: {error_msg}", <<lxml.message>>)
             /\ HasPart(TheReport, "GENERAL TIPS:", <<>>)

C18_Witness ==
    /\ fn = "XMLGenerator._enhance_validation_error"
    /\ arg.error_msg = <<"E", "l", "e", "m", "e", "n", "t", " ", "'", "S", "h", "i", "p", "m",
        "e", "n", "t", "'", ":", " ", "M", "i", "s", "s", "i", "n", "g", " ", "c", "h", "i", "l",
        "d", " ", "e", "l", "e", "m", "e", "n", "t", "(", "s", ")", ".">>
    /\ Unmatched(arg.error_msg)
    /\ HasPart(ret, "PROBLEM: {error_msg}", <<arg.error_msg>>)
    /\ HasPart(ret, "NOTE: Fixing one error at a time - there may be more after you fix this one.",
               <<>>)

\* the steps of the workflow that the markers stand for: Filer, Consignor,
\* Manufacturer, Consignee
StepOfMarker == <<<<"2">>, <<"4">>, <<"4">>, <<"5">>>>

\* the report sends the user to the step
NamesStep(report, step) ==
    \E i \in DOMAIN report :
       /\ report[i].text = "WHERE TO FIX: Go to Step {step_num} - {section}"
       /\ report[i].values[1] = step

\* the lines of the text, up to line n, that hold a marker
MarkerLines(xml_lines, n) ==
    {k \in DOMAIN xml_lines : k <= n /\ \E m \in DOMAIN Markers : In(Markers[m], xml_lines[k])}

\* the report names the step of a marker of the last of the lines
NamesStepOfLast(report, xml_lines, lines) ==
    lines # {} =>
       LET last == CHOOSE k \in lines : \A j \in lines : j <= k
       IN  \E m \in DOMAIN Markers :
              In(Markers[m], xml_lines[last]) /\ NamesStep(report, StepOfMarker[m])

\* the characters of s that are no period, in their order
RECURSIVE PeriodsRemoved(_)
PeriodsRemoved(s) ==
    IF s = <<>> THEN <<>>
    ELSE IF Head(s) = "." THEN PeriodsRemoved(Tail(s))
    ELSE <<Head(s)>> \o PeriodsRemoved(Tail(s))

\* the value the message gives between quotes is the value
Carries(error_msg, value) == In(<<"v", "a", "l", "u", "e", " ",
    "'">> \o value \o <<"'">>, error_msg)

\* every address of the message with a period in it is answered by the
\* suggestion of the address without its periods
PeriodsSuggestedAway ==
    /\ Carries(lxml.message, <<"N", ".", " ", "M", "a", "i", "n", " ", "S", "t", ".">>) =>
          HasPart(TheReport, "Quick Fix: Change {invalid_value} to {clean_addr}",
                  <<<<"N", ".", " ", "M", "a", "i", "n", " ", "S", "t", ".">>,
                    <<"N", " ", "M", "a", "i", "n", " ", "S", "t">>>>)
    /\ \A i \in DOMAIN TheReport :
          TheReport[i].text = "INVALID ADDRESS: {invalid_value}"
          /\ "." \in Range(TheReport[i].values[1])
          => HasPart(TheReport, "Quick Fix: Change {invalid_value} to {clean_addr}",
                     <<TheReport[i].values[1], PeriodsRemoved(TheReport[i].values[1])>>)
    /\ \A value \in {<<"S", "t", ".", " ", "P", "a", "u", "l", " ", "S", "t", ".">>,
                     <<"P", "i", "p", "e", "l", "i", "n", "e", " ", "3", " ", "R", "d", ".">>} :
          Carries(lxml.message, value) =>
             HasPart(TheReport, "Quick Fix: Change {invalid_value} to {clean_addr}",
                     <<value, PeriodsRemoved(value)>>)

\* C19 as stated: for a message that mentions AddressLine1 and carries the
\* value 'N. Main St.' the report suggests "N Main St" and names the step of
\* the nearest marker above the reported line (Filer: 2, ConsignorAddress and
\* ManufacturerAddress: 4, ConsigneeAddress: 5); every address value with a
\* period gets the suggestion of the value without its periods.
C19_NearestMarkerAbove ==
    Translated /\ In(<<"A", "d", "d", "r", "e", "s", "s", "L", "i", "n", "e",
        "1">>, lxml.message) =>
       /\ PeriodsSuggestedAway
       /\ Carries(lxml.message, <<"N", ".", " ", "M", "a", "i", "n", " ", "S", "t", ".">>)
          /\ lxml.line \in DOMAIN arg.xml_string
          => NamesStepOfLast(TheReport, arg.xml_string,
                             MarkerLines(arg.xml_string, lxml.line))

\* C19, amended: the same, the nearest marker being looked for on the
\* reported line and the 18 lines above it, the first line of the text not
\* among them.
C19_NearestMarkerInReach ==
    Translated /\ In(<<"A", "d", "d", "r", "e", "s", "s", "L", "i", "n", "e",
        "1">>, lxml.message) =>
       /\ PeriodsSuggestedAway
       /\ Carries(lxml.message, <<"N", ".", " ", "M", "a", "i", "n", " ", "S", "t", ".">>)
          /\ lxml.line \in DOMAIN arg.xml_string
          => NamesStepOfLast(TheReport, arg.xml_string,
                             {k \in MarkerLines(arg.xml_string, lxml.line) :
                                 k >= 2 /\ k >= lxml.line - (ScanReach - 2)})

C19_Witness ==
    /\ Validated /\ lxml.kind = "DocumentInvalid"
    /\ In(<<"A", "d", "d", "r", "e", "s", "s", "L", "i", "n", "e", "1">>, lxml.message)
    /\ Carries(lxml.message, <<"N", ".", " ", "M", "a", "i", "n", " ", "S", "t", ".">>)
    /\ lxml.line > ScanReach
    /\ In(Markers[4], arg.xml_string[lxml.line - 1])
    /\ HasPart(ret.error, "Quick Fix: Change {invalid_value} to {clean_addr}",
               <<<<"N", ".", " ", "M", "a", "i", "n", " ", "S", "t", ".">>,
                 <<"N", " ", "M", "a", "i", "n", " ", "S", "t">>>>)
    /\ HasPart(ret.error, "WHERE TO FIX: Go to Step {step_num} - {section}",
               <<<<"5">>, <<"s", "h", "i", "p", "m", "e", "n", "t", " ", "d", "a", "t", "a", " ",
                   "(", "f", "r", "o", "m", " ", "C", "S", "V", " ", "o", "r", " ", "t", "a",
                   "b", "l", "e", ")">>>>)

-----------------------------------------------------------------------------
(* Claims about the mapping report, checked under Spec *)

\* the fields a report of the type should have, as the claim lists them
RecommendedFields(report_type) ==
    <<"consignee_name", "consignee_address_line1", "consignee_city", "consignee_state",
      "consignee_zip", "shipment_date">>
    \o (IF report_type = "CommonCarrier" THEN <<"weight_of_beverages">>
        ELSE <<"bottle_count", "bottle_size_ml">>)

\* the canonical fields that the headers of the CSV reach
ReachedFields(report_type, csv_header) ==
    {Entry(TableOf(report_type), h) :
        h \in {c \in csv_header : HasEntry(TableOf(report_type), c)}}

\* C21: the report of no rows has four empty sections and nothing is raised;
\* the report of rows lists as missing exactly the recommended fields of the
\* report type that no header of the CSV reaches, in the order of the list.
C21_MissingRecommended ==
    fn = "map_csv" =>
       IF arg.csv_rows = <<>>
       THEN /\ ~ret.raised
            /\ ret.mapping_report.mapped_columns = {}
            /\ ret.mapping_report.unmapped_columns = {}
            /\ ret.mapping_report.missing_recommended = <<>>
            /\ ret.mapping_report.warnings = <<>>
       ELSE ret.mapping_report.missing_recommended =
               SelectSeq(RecommendedFields(arg.report_type),
                         LAMBDA f : f \notin ReachedFields(arg.report_type, arg.csv_header))

C21_Witness ==
    /\ fn = "map_csv"
    /\ arg.report_type = "FulfillmentHouse"
    /\ arg.csv_rows # <<>>
    /\ "Bottles" \in arg.csv_header
    /\ "bottle_count" \in ReachedFields(arg.report_type, arg.csv_header)
    /\ \E i \in DOMAIN ret.mapping_report.missing_recommended :
          ret.mapping_report.missing_recommended[i] = "bottle_size_ml"
    /\ \A i \in DOMAIN ret.mapping_report.missing_recommended :
          ret.mapping_report.missing_recommended[i]
             \notin {"bottle_count", "weight_of_beverages"}

-----------------------------------------------------------------------------
(* The persisted configuration: config_manager.py and the two configuration
   endpoints of app.py.

   A JSON value is null, a string or an object; an object is the list of its
   (key, value) pairs in insertion order, as a Python dict keeps them. *)

null == [type |-> "null", value |-> <<>>]
String(chars) == [type |-> "str", value |-> chars]
Dict(items) == [type |-> "dict", value |-> items]

\* a file that os.path.exists finds
TextFile(text) == [exists |-> TRUE, utf_8 |-> TRUE, text |-> text]
NotUtf8File == [exists |-> TRUE, utf_8 |-> FALSE, text |-> <<>>]

\* json.encoder: a string between quotes, its quotes, backslashes and line
\* feeds escaped
RECURSIVE encode_basestring(_)
encode_basestring(s) ==
    IF s = <<>> THEN <<>>
    ELSE (IF Head(s) \in {"\"", "\\"} THEN <<"\\", Head(s)>>
          ELSE IF Head(s) = "\n" THEN <<"\\", "n">>
          ELSE <<Head(s)>>) \o encode_basestring(Tail(s))

Indent(level) == [i \in 1..(2 * level) |-> " "]

\* json.dumps(o, indent=2), o at nesting depth level; iterencode_dict writes
\* the pairs from the k-th on
RECURSIVE dumps(_, _), iterencode_dict(_, _, _)
dumps(o, level) ==
    IF o.type = "null" THEN <<"n", "u", "l", "l">>
    ELSE IF o.type = "str" THEN <<"\"">> \o encode_basestring(o.value) \o <<"\"">>
    ELSE IF o.value = <<>> THEN <<"{", "}">>
    ELSE <<"{">> \o iterencode_dict(o.value, level + 1, 1)
                 \o <<"\n">> \o Indent(level) \o <<"}">>

iterencode_dict(items, level, k) ==
    IF k > Len(items) THEN <<>>
    ELSE (IF k > 1 THEN <<",">> ELSE <<>>) \o <<"\n">> \o Indent(level)
         \o <<"\"">> \o encode_basestring(items[k][1]) \o <<"\"", ":", " ">>
         \o dumps(items[k][2], level) \o iterencode_dict(items, level, k + 1)

\* json.dump(obj, f, indent=2) into a file opened with 'w'
json_dump(obj) == TextFile(dumps(obj, 0))

\* json.decoder
JSONDecodeError == [ok |-> FALSE, value |-> null, end |-> 0]
Decoded(value, end) == [ok |-> TRUE, value |-> value, end |-> end]

WHITESPACE == {" ", "\t", "\n", "\r"}

RECURSIVE SkipWhitespace(_, _)
SkipWhitespace(s, i) ==
    IF i <= Len(s) /\ s[i] \in WHITESPACE THEN SkipWhitespace(s, i + 1) ELSE i

\* d[key] = value
SetItem(items, key, value) ==
    IF \E k \in DOMAIN items : items[k][1] = key
    THEN [k \in DOMAIN items |-> IF items[k][1] = key THEN <<key, value>> ELSE items[k]]
    ELSE Append(items, <<key, value>>)

\* the string whose opening quote is just before place i; chars is what was read
\* so far.  A control character is an error (strict); the texts of the model
\* hold no \b, \f or \u escape.
RECURSIVE scanstring(_, _, _)
scanstring(s, i, chars) ==
    IF i > Len(s) THEN JSONDecodeError
    ELSE IF s[i] = "\"" THEN Decoded(chars, i + 1)
    ELSE IF s[i] \in {"\t", "\n", "\r"} THEN JSONDecodeError
    ELSE IF s[i] # "\\" THEN scanstring(s, i + 1, Append(chars, s[i]))
    ELSE IF i + 1 > Len(s) THEN JSONDecodeError
    ELSE IF s[i + 1] \in {"\"", "\\", "/"}
         THEN scanstring(s, i + 2, Append(chars, s[i + 1]))
    ELSE IF s[i + 1] = "n" THEN scanstring(s, i + 2, Append(chars, "\n"))
    ELSE IF s[i + 1] = "t" THEN scanstring(s, i + 2, Append(chars, "\t"))
    ELSE IF s[i + 1] = "r" THEN scanstring(s, i + 2, Append(chars, "\r"))
    ELSE JSONDecodeError

\* the value that starts at place i; JSONObject reads on after "{" or ","
RECURSIVE scan_once(_, _), JSONObject(_, _, _), AfterKey(_, _, _, _), AfterValue(_, _, _, _)
scan_once(s, i) ==
    IF i > Len(s) THEN JSONDecodeError
    ELSE IF s[i] = "\"" THEN
        \* the string, wrapped
        AfterKey(s, scanstring(s, i + 1, <<>>), <<>>, FALSE)
    ELSE IF s[i] = "{" THEN JSONObject(s, SkipWhitespace(s, i + 1), <<>>)
    ELSE IF StartsAt(s, i, <<"n", "u", "l", "l">>) THEN Decoded(null, i + 4)
    ELSE JSONDecodeError

JSONObject(s, i, pairs) ==
    IF i > Len(s) THEN JSONDecodeError
    ELSE IF s[i] = "}" /\ pairs = <<>> THEN Decoded(Dict(<<>>), i + 1)
    ELSE IF s[i] # "\"" THEN JSONDecodeError
    ELSE AfterKey(s, scanstring(s, i + 1, <<>>), pairs, TRUE)

\* key is what scanstring made of a string; as a key of an object it is
\* followed by ":" and a value
AfterKey(s, key, pairs, in_object) ==
    IF ~key.ok THEN JSONDecodeError
    ELSE IF ~in_object THEN Decoded(String(key.value), key.end)
    ELSE IF SkipWhitespace(s, key.end) > Len(s) THEN JSONDecodeError
    ELSE IF s[SkipWhitespace(s, key.end)] # ":" THEN JSONDecodeError
    ELSE AfterValue(s, key.value,
                    scan_once(s, SkipWhitespace(s, SkipWhitespace(s, key.end) + 1)), pairs)

\* v is the value read for key; "}" ends the object, "," goes on to a key
AfterValue(s, key, v, pairs) ==
    IF ~v.ok THEN JSONDecodeError
    ELSE IF SkipWhitespace(s, v.end) > Len(s) THEN JSONDecodeError
    ELSE IF s[SkipWhitespace(s, v.end)] = "}"
         THEN Decoded(Dict(SetItem(pairs, key, v.value)), SkipWhitespace(s, v.end) + 1)
    ELSE IF s[SkipWhitespace(s, v.end)] # "," THEN JSONDecodeError
    ELSE IF SkipWhitespace(s, SkipWhitespace(s, v.end) + 1) > Len(s) THEN JSONDecodeError
    ELSE IF s[SkipWhitespace(s, SkipWhitespace(s, v.end) + 1)] # "\"" THEN JSONDecodeError
    ELSE JSONObject(s, SkipWhitespace(s, SkipWhitespace(s, v.end) + 1),
                    SetItem(pairs, key, v.value))

\* json.load(f) of a text: one value, and nothing but whitespace around it
WholeText(text, r) ==
    IF r.ok /\ SkipWhitespace(text, r.end) = Len(text) + 1 THEN r ELSE JSONDecodeError

json_load(text) == WholeText(text, scan_once(text, SkipWhitespace(text, 1)))

\* what a call comes to: the value returned, or the exception that left it
Value(v) == [raised |-> "", value |-> v]
Raise(exception) == [raised |-> exception, value |-> null]

\* ConfigManager.save_filer_config
save_filer_config(filer_data) == json_dump(filer_data)

\* ConfigManager.load_filer_config: open(..., encoding='utf-8') and json.load
\* read the whole file, and only json.JSONDecodeError is caught
load_filer_config(file) ==
    IF ~file.exists THEN Value(null)
    ELSE IF ~file.utf_8 THEN Raise("UnicodeDecodeError")
    ELSE IF json_load(file.text).ok THEN Value(json_load(file.text).value)
    ELSE Value(null)

\* ConfigManager.save_defaults, ConfigManager.load_defaults
save_defaults(defaults) == json_dump(defaults)

load_defaults(file) ==
    IF ~file.exists THEN Value(null)
    ELSE IF ~file.utf_8 THEN Raise("UnicodeDecodeError")
    ELSE IF json_load(file.text).ok THEN Value(json_load(file.text).value)
    ELSE Value(null)

get_default_filer ==
    Dict(<< <<<<"t", "i", "n", "_", "t", "y", "p", "e">>, String(<<"F", "E", "I", "N">>)>>,
            <<<<"t", "i", "n", "_", "v", "a", "l", "u", "e">>, String(<<>>)>>,
            <<<<"s", "t", "a", "t", "e", "_", "e", "i", "n">>, String(<<>>)>>,
            <<<<"b", "u", "s", "i", "n", "e", "s", "s", "_", "n", "a", "m", "e", "_", "l", "i", "n", "e", "1">>, String(<<>>)>>,
            <<<<"b", "u", "s", "i", "n", "e", "s", "s", "_", "n", "a", "m", "e", "_", "l", "i", "n", "e", "2">>, String(<<>>)>>,
            <<<<"a", "d", "d", "r", "e", "s", "s", "_", "l", "i", "n", "e", "1">>, String(<<>>)>>,
            <<<<"a", "d", "d", "r", "e", "s", "s", "_", "l", "i", "n", "e", "2">>, String(<<>>)>>,
            <<<<"c", "i", "t", "y">>, String(<<>>)>>,
            <<<<"s", "t", "a", "t", "e">>, String(<<"W", "I">>)>>,
            <<<<"z", "i", "p">>, String(<<>>)>> >>)

DefaultParty(permit) ==
    Dict(<< <<<<"n", "a", "m", "e">>, String(<<>>)>>,
            <<<<"a", "d", "d", "r", "e", "s", "s", "_", "l", "i", "n", "e", "1">>, String(<<>>)>>,
            <<<<"a", "d", "d", "r", "e", "s", "s", "_", "l", "i", "n", "e", "2">>, String(<<>>)>>,
            <<<<"c", "i", "t", "y">>, String(<<>>)>>,
            <<<<"s", "t", "a", "t", "e">>, String(<<"W", "I">>)>>,
            <<<<"z", "i", "p">>, String(<<>>)>>,
            <<permit, String(<<>>)>> >>)

BuiltInConsignor == DefaultParty(<<"p", "e", "r", "m", "i", "t", "_", "n", "u", "m", "b", "e", "r">>)
BuiltInManufacturer == DefaultParty(<<"w", "i", "n", "e", "_", "p", "e", "r", "m", "i", "t", "_", "n", "u", "m", "b", "e", "r">>)

\* the record GET /api/config/defaults answers with when none is loaded
BuiltInDefaults ==
    Dict(<< <<<<"c", "o", "n", "s", "i", "g", "n", "o", "r">>, BuiltInConsignor>>,
            <<<<"m", "a", "n", "u", "f", "a", "c", "t", "u", "r", "e", "r">>, BuiltInManufacturer>>,
            <<<<"c", "o", "m", "m", "o", "n", "_", "c", "a", "r", "r", "i", "e", "r", "_", "p", "e", "r", "m", "i", "t">>, String(<<>>)>>,
            <<<<"a", "c", "k", "_", "e", "m", "a", "i", "l">>, String(<<>>)>> >>)

\* GET and POST /api/config/filer: the answer, and the file afterwards
filer_config(method, json, file) ==
    IF method = "GET"
    THEN [file |-> file,
          answer |-> IF load_filer_config(file) = Value(null)
                     THEN Value(get_default_filer) ELSE load_filer_config(file)]
    ELSE [file |-> save_filer_config(json),
          answer |-> Value(String(<<"F", "i", "l", "e", "r", " ", "c", "o", "n", "f", "i", "g", "u", "r", "a", "t", "i", "o", "n", " ", "s", "a", "v", "e", "d">>))]

\* GET and POST /api/config/defaults
defaults_config(method, json, file) ==
    IF method = "GET"
    THEN [file |-> file,
          answer |-> IF load_defaults(file) = Value(null)
                     THEN Value(BuiltInDefaults) ELSE load_defaults(file)]
    ELSE [file |-> save_defaults(json),
          answer |-> Value(String(<<"D", "e", "f", "a", "u", "l", "t", "s", " ", "s", "a", "v", "e", "d">>))]

-----------------------------------------------------------------------------
(* The configuration requests, served one after the other on files that were
   left by an earlier run, by an editor, or by a write that was cut short *)

SavedFiler ==
    Dict(<< <<<<"t", "i", "n", "_", "t", "y", "p", "e">>, String(<<"S", "S", "N">>)>>,
            <<<<"b", "u", "s", "i", "n", "e", "s", "s", "_", "n", "a", "m", "e", "_", "l", "i", "n", "e", "1">>, String(<<"B", "o", "b", " ", "\"", "B", "\"", " ", "\\", " ", "C", "o">>)>>,
            <<<<"c", "i", "t", "y">>, String(<<"E", "a", "u">>)>> >>)

SavedDefaults ==
    Dict(<< <<<<"c", "o", "n", "s", "i", "g", "n", "o", "r">>, Dict(<< <<<<"n", "a", "m", "e">>, String(<<"A", "c", "m", "e">>)>> >>)>>,
            <<<<"m", "a", "n", "u", "f", "a", "c", "t", "u", "r", "e", "r">>, Dict(<<>>)>>,
            <<<<"a", "c", "k", "_", "e", "m", "a", "i", "l">>, String(<<"a", "@", "b", ".", "c">>)>> >>)

FilerBodies == {SavedFiler, get_default_filer, Dict(<<>>), null}
DefaultsBodies == {SavedDefaults, BuiltInDefaults, null}

\* every text a write of SavedFiler leaves when it is cut short, the whole
\* text included
CutShort(text) == {SubSeq(text, 1, n) : n \in 0..Len(text)}

\* texts written by hand: a trailing comma, a key written twice, a bare null
HandWritten ==
    {<<"{", "\"", "a", "\"", ":", " ", "\"", "b", "\"", ",", "}">>, <<"{", "\"", "a", "\"", ":", " ", "\"", "1", "\"", ",", " ", "\"", "b", "\"", ":", " ", "\"", "2", "\"", ",", " ", "\"", "a", "\"", ":", " ", "\"", "3", "\"", "}">>, <<" ", "n", "u", "l", "l", " ">>,
     <<"{", "\"", "a", "\"", ":", " ", "{", "\"", "b", "\"", ":", " ", "\"", "\\", "/", "\"", "}", "}", " ", "x">>, <<"\"", "a", "\\", "t", "b", "\"">>}

FilerFiles ==
    {Missing, NotUtf8File}
    \cup {TextFile(text) : text \in CutShort(dumps(SavedFiler, 0)) \cup HandWritten}

DefaultsFiles ==
    {Missing, NotUtf8File, TextFile(<<"{">>), json_dump(SavedDefaults)}

InitConfig ==
    /\ pc = "ready"
    /\ fn = "none"
    /\ arg = [method |-> "none", json |-> null]
    /\ ret = Value(null)
    /\ line = 0
    /\ origin = NoOrigin
    /\ dateutil = Failed
    /\ shipments = <<>>
    /\ assembled = <<>>
    /\ response = "none"
    /\ earlier = NoCall
    /\ lxml = NotCalled
    /\ filer_config_file \in FilerFiles
    /\ defaults_config_file \in DefaultsFiles

\* GET /api/config/filer
GetFilerConfig ==
    /\ fn' = "filer_config"
    /\ arg' = [method |-> "GET", json |-> null]
    /\ ret' = filer_config("GET", null, filer_config_file).answer
    /\ UNCHANGED <<pc, line, origin, dateutil, shipments, assembled, response, earlier, lxml,
                   filer_config_file, defaults_config_file>>

\* POST /api/config/filer
PostFilerConfig ==
    /\ \E json \in FilerBodies :
          /\ arg' = [method |-> "POST", json |-> json]
          /\ ret' = filer_config("POST", json, filer_config_file).answer
          /\ filer_config_file' = filer_config("POST", json, filer_config_file).file
    /\ fn' = "filer_config"
    /\ UNCHANGED <<pc, line, origin, dateutil, shipments, assembled, response, earlier, lxml,
                   defaults_config_file>>

\* GET /api/config/defaults
GetDefaultsConfig ==
    /\ fn' = "defaults_config"
    /\ arg' = [method |-> "GET", json |-> null]
    /\ ret' = defaults_config("GET", null, defaults_config_file).answer
    /\ UNCHANGED <<pc, line, origin, dateutil, shipments, assembled, response, earlier, lxml,
                   filer_config_file, defaults_config_file>>

\* POST /api/config/defaults
PostDefaultsConfig ==
    /\ \E json \in DefaultsBodies :
          /\ arg' = [method |-> "POST", json |-> json]
          /\ ret' = defaults_config("POST", json, defaults_config_file).answer
          /\ defaults_config_file' = defaults_config("POST", json, defaults_config_file).file
    /\ fn' = "defaults_config"
    /\ UNCHANGED <<pc, line, origin, dateutil, shipments, assembled, response, earlier, lxml,
                   filer_config_file>>

NextConfig == GetFilerConfig \/ PostFilerConfig \/ GetDefaultsConfig \/ PostDefaultsConfig

SpecConfig == InitConfig /\ [][NextConfig]_vars

-----------------------------------------------------------------------------
(* Claims about the persisted configuration, checked under SpecConfig *)

\* absent, or holding what is not a JSON text
AbsentOrMalformed(file) == ~file.exists \/ ~file.utf_8 \/ ~json_load(file.text).ok

\* C22: a configuration file that is absent or holds malformed JSON is loaded
\* as None without an exception, and the GET endpoint then answers with the
\* built-in default record; right after a save, the load returns the saved
\* record.
C22_SoftConfiguration ==
    /\ fn = "filer_config" /\ arg.method = "GET" /\ AbsentOrMalformed(filer_config_file)
          => /\ load_filer_config(filer_config_file) = Value(null)
             /\ ret = Value(get_default_filer)
    /\ fn = "defaults_config" /\ arg.method = "GET" /\ AbsentOrMalformed(defaults_config_file)
          => /\ load_defaults(defaults_config_file) = Value(null)
             /\ ret = Value(BuiltInDefaults)
    /\ fn = "filer_config" /\ arg.method = "POST"
          => load_filer_config(filer_config_file) = Value(arg.json)
    /\ fn = "defaults_config" /\ arg.method = "POST"
          => load_defaults(defaults_config_file) = Value(arg.json)

\* the same, for files whose bytes are UTF-8
C22_SoftWhenDecodable ==
    /\ fn = "filer_config" /\ arg.method = "GET" /\ filer_config_file.utf_8
          /\ AbsentOrMalformed(filer_config_file)
          => /\ load_filer_config(filer_config_file) = Value(null)
             /\ ret = Value(get_default_filer)
    /\ fn = "defaults_config" /\ arg.method = "GET" /\ defaults_config_file.utf_8
          /\ AbsentOrMalformed(defaults_config_file)
          => /\ load_defaults(defaults_config_file) = Value(null)
             /\ ret = Value(BuiltInDefaults)
    /\ fn = "filer_config" /\ arg.method = "POST"
          => load_filer_config(filer_config_file) = Value(arg.json)
    /\ fn = "defaults_config" /\ arg.method = "POST"
          => load_defaults(defaults_config_file) = Value(arg.json)

-----------------------------------------------------------------------------
(* Claims about the location a report names, checked under SpecXml *)

\* the lines of a report that carry the location
LocationParts ==
    {"PROBLEM: Invalid street address in {location}",
     "PROBLEM: Missing or empty street address in {location}",
     "{location}"}

\* how the locations speak of the sections that the markers open: Filer,
\* ConsignorAddress, ManufacturerAddress, ConsigneeAddress
SectionWords ==
    <<{<<"y", "o", "u", "r", " ", "b", "u", "s", "i", "n", "e", "s", "s">>}, {<<"c", "o", "n", "s", "i", "g", "n", "o", "r">>, <<"s", "e", "n", "d", "e", "r">>}, {<<"m", "a", "n", "u", "f", "a", "c", "t", "u", "r", "e", "r">>},
      {<<"r", "e", "c", "i", "p", "i", "e", "n", "t">>}>>

\* the report has a location, and it is the one of marker m
NamesSection(report, m) ==
    \E i \in DOMAIN report :
       /\ report[i].text \in LocationParts
       /\ \E word \in SectionWords[m] : In(word, lower(report[i].values[1]))

\* the message carries a line number that lies within the text
LineWithin(error_msg, xml_lines) == search_line(error_msg) \in DOMAIN xml_lines

\* the reports of these kinds of field name a location
LocatedKinds == {"AddressLine1", "ZIP", "State", "City"}

\* C24: when the message carries a line number within the document and the
\* scan upwards from that line finds a line with a marker, the location of
\* the report is the section of that marker, for each kind of field whose
\* report names a location: address line, ZIP, state and city.
C24_LocationByScan ==
    /\ Translated
    /\ Kind(lxml.message) \in LocatedKinds
    /\ LineWithin(lxml.message, arg.xml_string)
    /\ NearestMarker(arg.xml_string, search_line(lxml.message)) # 0
    => NamesSection(TheReport,
                    NearestMarker(arg.xml_string, search_line(lxml.message)))

\* the same for the address lines and the ZIP codes alone
C24_ScanForAddressAndZip ==
    /\ Translated
    /\ Kind(lxml.message) \in {"AddressLine1", "ZIP"}
    /\ LineWithin(lxml.message, arg.xml_string)
    /\ NearestMarker(arg.xml_string, search_line(lxml.message)) # 0
    => NamesSection(TheReport,
                    NearestMarker(arg.xml_string, search_line(lxml.message)))

\* the section that the whole-text test comes to: the first of consignor,
\* manufacturer and consignee address that the text has, or the filer
PresentSection(xml_lines) ==
    IF InText(Markers[2], xml_lines) THEN 2
    ELSE IF InText(Markers[3], xml_lines) THEN 3
    ELSE IF InText(Markers[4], xml_lines) THEN 4
    ELSE 1

\* the message has no line number, or one past the end of the text, or the
\* scan meets no marker
ScanFails(error_msg, xml_lines) ==
    NearestMarker(xml_lines, search_line(error_msg)) = 0

\* C25: when the message has no line number, or the line number is past the
\* end of the document, or the scan finds no marker, the location of the
\* report is the first of ConsignorAddress, ManufacturerAddress and
\* ConsigneeAddress that the document has, or else the filer; no report leaves
\* the location unknown.
C25_FallbackOrder ==
    /\ Translated /\ Kind(lxml.message) \in LocatedKinds
          /\ ScanFails(lxml.message, arg.xml_string)
          => NamesSection(TheReport, PresentSection(arg.xml_string))
    /\ Translated =>
          ~HasPart(TheReport, "{location}", <<<<"U", "n", "k", "n", "o", "w", "n", " ", "l", "o", "c", "a", "t", "i", "o", "n">>>>)

\* the same for the reports on address lines alone
C25_AddressFallback ==
    Translated /\ Kind(lxml.message) = "AddressLine1"
       /\ ScanFails(lxml.message, arg.xml_string)
       => NamesSection(TheReport, PresentSection(arg.xml_string))

-----------------------------------------------------------------------------
(* Claims about the kind of field a message is taken for, checked under
   SpecXml *)

\* the kinds in the order in which they are tried: the words that make a
\* message one of the kind, whether they are looked for in the lowercased
\* message, and the line that opens the remediation of the kind
Templates ==
    <<[words |-> {<<"A", "d", "d", "r", "e", "s", "s", "L", "i", "n", "e", "1">>}, lowered |-> FALSE,
       problems |-> {"PROBLEM: Invalid street address in {location}",
                     "PROBLEM: Missing or empty street address in {location}"}],
      [words |-> {<<"T", "I", "N">>}, lowered |-> FALSE,
       problems |-> {"PROBLEM: Tax ID Number (TIN) is missing or incorrect"}],
      [words |-> {<<"P", "e", "r", "m", "i", "t", "N", "u", "m", "b", "e", "r">>, <<"W", "i", "n", "e", "P", "e", "r", "m", "i", "t", "N", "u", "m", "b", "e", "r">>, <<"C", "o", "m", "m", "o", "n", "C", "a", "r", "r", "i", "e", "r", "P", "e", "r", "m", "i", "t", "N", "u", "m", "b", "e", "r">>},
       lowered |-> FALSE,
       problems |-> {"PROBLEM: Permit Number is missing or incorrect"}],
      [words |-> {<<"D", "a", "t", "e">>, <<"Y", "Y", "Y", "Y", "-", "M", "M", "-", "D", "D">>}, lowered |-> FALSE,
       problems |-> {"PROBLEM: Date could not be understood or is invalid"}],
      [words |-> {<<"E", "m", "a", "i", "l">>, <<"A", "c", "k", "A", "d", "d", "r", "e", "s", "s">>}, lowered |-> FALSE,
       problems |-> {"PROBLEM: Email address is missing or invalid"}],
      [words |-> {<<"S", "t", "a", "t", "e">>}, lowered |-> FALSE,
       problems |-> {"PROBLEM: State code is invalid or missing"}],
      [words |-> {<<"C", "i", "t", "y">>}, lowered |-> FALSE,
       problems |-> {"PROBLEM: City name contains invalid characters"}],
      [words |-> {<<"B", "u", "s", "i", "n", "e", "s", "s", "N", "a", "m", "e", "L", "i", "n", "e", "1">>}, lowered |-> FALSE,
       problems |-> {"PROBLEM: Business name is missing or has invalid characters"}],
      [words |-> {<<"Z", "I", "P">>, <<"Z", "i", "p">>}, lowered |-> FALSE,
       problems |-> {"PROBLEM: ZIP code is invalid"}],
      [words |-> {<<"W", "e", "i", "g", "h", "t">>}, lowered |-> FALSE,
       problems |-> {"PROBLEM: Weight value is missing or invalid"}],
      [words |-> {<<"p", "a", "t", "t", "e", "r", "n">>, <<"n", "o", "t", " ", "a", "c", "c", "e", "p", "t", "e", "d">>}, lowered |-> TRUE,
       problems |-> {"PROBLEM: A field has invalid characters or is empty when it's required"}]>>

\* a word of the k-th kind occurs in the message
Occurs(k, error_msg) ==
    \E word \in Templates[k].words :
       In(word, IF Templates[k].lowered THEN lower(error_msg) ELSE error_msg)

\* the lines of the report that open a remediation
ProblemsOf(report) ==
    {report[i].text : i \in DOMAIN report}
    \cap (UNION {Templates[k].problems : k \in DOMAIN Templates} \cup {"PROBLEM: {error_msg}"})

\* C26: the report of a message uses one remediation, the one of the first
\* kind, in the order AddressLine1, TIN, PermitNumber, Date, Email/AckAddress,
\* State, City, BusinessNameLine1, ZIP, Weight, pattern failure, of which a
\* word occurs in the message, whatever words of later kinds occur as well.
C26_FirstKindWins ==
    Translated =>
       \A k \in DOMAIN Templates :
          Occurs(k, lxml.message) /\ (\A j \in 1..(k - 1) : ~Occurs(j, lxml.message))
          => /\ Cardinality(ProblemsOf(TheReport)) = 1
             /\ ProblemsOf(TheReport) \subseteq Templates[k].problems

\* a message about a city whose value has TIN in it, and that speaks of a
\* pattern, is answered as one about the TIN
C26_Witness ==
    /\ Translated
    /\ Occurs(2, lxml.message) /\ Occurs(7, lxml.message) /\ Occurs(11, lxml.message)
    /\ ~Occurs(1, lxml.message)
    /\ ProblemsOf(TheReport) = {"PROBLEM: Tax ID Number (TIN) is missing or incorrect"}

-----------------------------------------------------------------------------
(* Claims about headers that reach the same field, checked under Spec *)

\* the place of a header in a list of headers
Place(order, h) == CHOOSE k \in DOMAIN order : order[k] = h

\* the headers of a synonym table, in the order of the table
TableHeaders(mappings) == [k \in DOMAIN mappings |-> mappings[k][1]]

\* header g of the row has a value, reaches the field that h reaches, and
\* comes after h in the order
Overrides(mappings, row, order, g, h) ==
    /\ g \in DOMAIN row /\ Truthy(row[g])
    /\ HasEntry(mappings, g) /\ Entry(mappings, g) = Entry(mappings, h)
    /\ Place(order, g) > Place(order, h)

\* the row with, for every field, only the value of the last of the headers,
\* in the order, that have one
OnlyLast(mappings, row, order) ==
    [h \in DOMAIN row |->
        IF /\ HasEntry(mappings, h)
           /\ \E g \in DOMAIN row : Overrides(mappings, row, order, g, h)
        THEN Empty ELSE row[h]]

\* the shipments that the rows give when, of the headers with a value that
\* reach the same field, only the last in the order is kept
MappedFromLast(order) ==
    map_csv(arg.report_type, arg.defaults,
            [i \in DOMAIN arg.csv_rows |->
                OnlyLast(TableOf(arg.report_type), arg.csv_rows[i], order)],
            dateutil).shipments

\* C27 as stated: when two headers of a row both have a value and map to the
\* same canonical field, the field holds the value of the header that comes
\* later in the column order of the CSV, in every row.
C27_LaterColumnWins ==
    fn = "map_csv" /\ ~ret.raised => ret.shipments = MappedFromLast(arg.fieldnames)

\* C27, amended: the field holds the value of the header that comes later in
\* the synonym table of the report type, in every row, whatever the column
\* order of the CSV.
C27_LaterTableEntryWins ==
    fn = "map_csv" /\ ~ret.raised =>
       ret.shipments = MappedFromLast(TableHeaders(TableOf(arg.report_type)))

\* a row with a value under "Ship To Company" and under "Company", the first
\* of them the later column: consignee_name is the value under "Company"
C27_Witness ==
    /\ fn = "map_csv" /\ ~ret.raised
    /\ \E i \in DOMAIN arg.csv_rows :
          /\ {"Company", "Ship To Company"} \subseteq DOMAIN arg.csv_rows[i]
          /\ Truthy(arg.csv_rows[i]["Company"])
          /\ Overrides(TableOf(arg.report_type), arg.csv_rows[i], arg.fieldnames,
                       "Ship To Company", "Company")
          /\ arg.csv_rows[i]["Company"] # arg.csv_rows[i]["Ship To Company"]
          /\ ret.shipments[i]["consignee_name"] = arg.csv_rows[i]["Company"]

-----------------------------------------------------------------------------
(* POST /api/xml/generate to its end: the Document Assembler and the
   validator are called, and the response is built from what they give *)

\* jsonify(...) and the status sent with it; Empty stands for a key that the
\* body does not have
Response(status, success, error, validation_error, xml, validation) ==
    [status |-> status, success |-> success, error |-> error,
     validation_error |-> validation_error, xml |-> xml, validation |-> validation]

\* the rest of the handler: r is what the request checks left, g what the
\* assembler made of it, outcome what lxml does with the text. The error of a
\* KeyError is its key, which str(e) puts between quotes
generate_xml_response(r, g, outcome) ==
    IF r.response # "assembled"
    THEN Response(400, FALSE, r.response, Empty, Empty, "")
    ELSE IF g.raised
    THEN Response(500, FALSE, g.key, Empty, Empty, "")
    ELSE IF ~validate_xml(g.xml_string, outcome).is_valid
    THEN Response(400, FALSE, "XML validation failed",
                  validate_xml(g.xml_string, outcome).error, g.xml_string, "")
    ELSE Response(200, TRUE, "", Empty, g.xml_string, "passed")

\* the document the assembler makes of what the handler hands to it
Assembled(r) ==
    XMLGenerator_generate_xml(r.report_type, r.filer_data, r.shipments, r.tax_period_begin,
                              r.tax_period_end, r.ack_email, r.amended)

\* the requests that are followed to their response
AnsweredRequests ==
    {<<"CommonCarrier", ZedDefaults, CompleteRest>>,
     <<"CommonCarrier", AcmeDefaults, AmendedRest>>,
     <<"FulfillmentHouse", ZedDefaults, AmendedRest>>,
     <<"CommonCarrier", ZedDefaults, NoFilerRest>>,
     <<"FulfillmentHouse", ZedDefaults, NoPeriodRest>>,
     <<"CommonCarrier", BlankDefaults, NoEmailRest>>}

\* the elements of which the schema is taken to reject one
RejectedTags == {"ZIP", "State"}

\* what lxml may do in a request: nothing when no text is made, else it
\* accepts the text or rejects one of these elements
OutcomesIn(r, g) ==
    IF r.response # "assembled" \/ g.raised THEN {NotCalled}
    ELSE {Accepted} \cup {Rejection(leaf) :
                             leaf \in {l \in Leaves(g.root, 2) : l.tag \in RejectedTags}}

\* POST /api/xml/generate
PostGenerateXml ==
    /\ \E request \in AnsweredRequests :
          \E data \in {[report_type |-> request[1], defaults |-> request[2],
                        shipments |-> shipments, filer_data |-> request[3].filer_data,
                        tax_period_begin |-> request[3].tax_period_begin,
                        tax_period_end |-> request[3].tax_period_end,
                        ack_email |-> request[3].ack_email,
                        amended |-> request[3].amended]} :
          \E r \in {generate_xml(data, dateutil)} :
          \E g \in {IF r.response = "assembled" THEN Assembled(r) ELSE KeyError("")} :
          \E outcome \in OutcomesIn(r, g) :
             /\ arg' = data
             /\ assembled' = IF r.response = "assembled" THEN r ELSE <<>>
             /\ response' = r.response
             /\ ret' = generate_xml_response(r, g, outcome)
             /\ lxml' = outcome
    /\ fn' = "generate_xml"
    /\ UNCHANGED <<pc, line, origin, dateutil, shipments, earlier,
                   filer_config_file, defaults_config_file>>

NextRequest == MapCsv \/ PostGenerateXml

SpecRequest == Init /\ [][NextRequest]_vars

-----------------------------------------------------------------------------
(* Claims about the generation request, checked under SpecRequest *)

\* the first of the four checks that the request fails, in the order filer
\* data, shipments, tax period, email; "" if it passes them all
FirstFailing(data, parsed) ==
    IF data.filer_data = Empty THEN "Filer data is required"
    ELSE IF Len(data.shipments) = 0 THEN "At least one shipment is required"
    ELSE IF \/ data.tax_period_begin = Empty \/ data.tax_period_end = Empty
            \/ normalize_date(data.tax_period_begin, parsed) = Empty
            \/ normalize_date(data.tax_period_end, parsed) = Empty
         THEN "Tax period dates are required"
    ELSE IF data.ack_email = Empty THEN "Acknowledgement email is required"
    ELSE ""

\* C28: the response is a success (success true, validation 'passed') only
\* when the XML was assembled and validate_xml accepted it; a request that
\* fails one of the four checks gets status 400 with the error of the first
\* check it fails, in the order filer data, shipments, tax period, email, and
\* no XML is made; when the schema rejects the document the response is a
\* failure that carries the translated report and the generated XML.
C28_SuccessOnlyWhenAccepted ==
    fn = "generate_xml" =>
       /\ ret.success =>
             /\ ret.status = 200 /\ ret.validation = "passed"
             /\ assembled # <<>> /\ ~Assembled(assembled).raised
             /\ ret.xml = Assembled(assembled).xml_string
             /\ lxml.kind = "valid"
             /\ validate_xml(ret.xml, lxml) = Returned(TRUE, Empty)
       /\ ret.validation = "passed" => ret.success
       /\ FirstFailing(arg, dateutil) # "" =>
             /\ ret.status = 400 /\ ~ret.success
             /\ ret.error = FirstFailing(arg, dateutil)
             /\ ret.xml = Empty /\ assembled = <<>> /\ lxml = NotCalled
       /\ lxml.kind = "DocumentInvalid" =>
             /\ ret.status = 400 /\ ~ret.success
             /\ ret.error = "XML validation failed"
             /\ ret.validation_error = enhance_validation_error(lxml.message, ret.xml)
             /\ ret.xml = Assembled(assembled).xml_string /\ ret.xml # Empty

\* a request that passed the checks, whose document was assembled and accepted
C28_Witness ==
    /\ fn = "generate_xml" /\ ret.success /\ ret.validation = "passed"
    /\ lxml.kind = "valid" /\ Len(ret.xml) > 1 /\ Len(arg.shipments) > 0

-----------------------------------------------------------------------------
(* Claims about the sections of a generated document, checked under SpecXml *)

\* the marker that the opening tag of an element is, 0 if it is none
MarkerOfTag(tag) ==
    CASE tag = "Filer" -> 1
      [] tag = "ConsignorAddress" -> 2
      [] tag = "ManufacturerAddress" -> 3
      [] tag = "ConsigneeAddress" -> 4
      [] OTHER -> 0

\* the AddressLine1 and ZIP elements of an element that begins on line n and
\* lies in the section of marker m: the line of each, and the marker of the
\* innermost section around it
RECURSIVE Enclosed(_, _, _), EnclosedOfAll(_, _, _, _)
Enclosed(element, n, m) ==
    IF element.children = <<>>
    THEN IF element.tag \in {"AddressLine1", "ZIP"}
         THEN {[line |-> n, tag |-> element.tag, marker |-> m]} ELSE {}
    ELSE EnclosedOfAll(element.children, 1, n + 1,
                       IF MarkerOfTag(element.tag) # 0 THEN MarkerOfTag(element.tag) ELSE m)
EnclosedOfAll(children, i, n, m) ==
    IF i > Len(children) THEN {}
    ELSE Enclosed(children[i], n, m)
         \cup EnclosedOfAll(children, i + 1, n + Height(children[i]), m)

\* the scan upwards from each AddressLine1 and ZIP line of the document meets
\* the marker of the section around the line
ScanFindsSection(document) ==
    \A e \in Enclosed(document.root, 2, 0) :
       /\ In(OpenTag(e.tag), document.xml_string[e.line])
       /\ e.marker # 0
       /\ NearestMarker(document.xml_string, e.line) = e.marker

\* C29: in every document that generate_xml produces, of either report type,
\* the scan upwards from a line that holds an AddressLine1 or a ZIP element
\* meets a marker, and the first it meets is the one of the section around
\* the line: Filer for the address of the filer, ConsignorAddress,
\* ManufacturerAddress or ConsigneeAddress for the blocks of a shipment.
\* Violated: a value with line feeds in it is written on several lines, and
\* the ZIP of FiveLineFiler lies 19 lines below <Filer>, one more than the
\* scan goes up.
C29_ScanFindsEnclosingSection ==
    Generated /\ ~ret.raised => ScanFindsSection(ret)

\* what does hold: the scan finds the section in the documents whose values
\* have no line feed in them
C29_ScanFindsSectionOfOneLineValues ==
    Generated /\ ~ret.raised
    /\ (\A l \in Leaves(ret.root, 2) : \A k \in DOMAIN l.text : l.text[k] # LineFeed)
    => ScanFindsSection(ret)

-----------------------------------------------------------------------------
(* Claims about a second normalisation of a date, checked under SpecDate *)

\* the call of normalize_date on what the call of the state returned gets as
\* far as the dateutil attempt only with the string that the first call
\* handed to dateutil, so that the attempt comes out as it did
SameAttempt ==
    ~normalize_date_formats(ret).done =>
        /\ dateutil.tried
        /\ normalize_date_formats(ret).value = normalize_date_formats(arg).value

\* C30: normalize_date is idempotent, normalize_date(normalize_date(x)) is
\* normalize_date(x) for every string x: a date that was normalised when the
\* CSV was read is not changed when it is normalised again.
C30_Idempotent ==
    Called("normalize_date") =>
        SameAttempt /\ normalize_date(ret, dateutil) = ret

\* a date written month first, 10/29/2025 for one, was rewritten, and the
\* second call gives the rewritten date back
C30_Witness ==
    /\ Called("normalize_date")
    /\ line = 217 /\ origin.kind = "rendered" /\ origin.format = 2
    /\ ret # arg
    /\ normalize_date(ret, dateutil) = ret

=============================================================================
